---- MODULE Spec2Model ----
(***************************************************************************)
(* Archive format resolution and command synthesis of ranger-archives      *)
(* (archives_utils.py).  Strings are sequences of one-character strings,   *)
(* so that lower-casing, regular-expression search and str.replace are     *)
(* computed character by character.  An Optional value is the empty        *)
(* sequence (None) or a one-element sequence holding the value.            *)
(***************************************************************************)
EXTENDS Naturals, Sequences, FiniteSets, TLC

VARIABLES
  host,          \* the binaries found on PATH (names)
  dirs,          \* the directories that exist in the file system
  op,            \* the operation applied last
  archive_name,  \* its filename argument
  user_flags,    \* its flag list argument
  files,         \* its file list argument (compression)
  to_dir,        \* its Optional destination argument (extraction)
  tool_groups,   \* its tool-group list argument (find_available_tool_group)
  ret,           \* the value it returned
  exc,           \* the exception it raised ("" when it returned)
  payload,       \* what the archive file holds: "tar", "plain" or "unreadable"
  compat,        \* the flags marked unsupported for the variant of the tool in use
  started,       \* archive_cli: the subprocess.run calls made, in order
  success,       \* archive_cli: what compress_files / decompress_archive returned
  loader,        \* ranger: the CommandLoader jobs added to fm.loader, in order
  copy_buffer,   \* ranger: fm.copy_buffer
  cut_buffer,    \* ranger: fm.cut_buffer
  registry,      \* the writes made to the FORMATS object since start-up, in order
  procs          \* the callers that run at the same time: where each is in its call

\* the file content and the callers' state, which the engine never touches
caller_vars == <<payload, compat, started, success, loader, copy_buffer, cut_buffer>>

\* the state that calls running at the same time share or own
conc_vars == <<registry, procs>>

\* the last call made on its own, with its arguments and result
engine_vars == <<op, archive_name, user_flags, files, to_dir, tool_groups, ret, exc>>

vars == <<host, dirs, op, archive_name, user_flags, files, to_dir, tool_groups, ret, exc,
          payload, compat, started, success, loader, copy_buffer, cut_buffer,
          registry, procs>>

\* ---------------------------------------------------------------- bounds
MaxExts == 2
MaxInstalled == 2
MaxFiles == 2

\* ------------------------------------------------------- Python built-ins
None == <<>>
Some(x) == <<x>>

\* truth value of an Optional string or Optional list: None, "" and [] are false
Truthy(o) == Len(o) = 1 /\ Len(o[1]) > 0

LowerOf ==
  ("A" :> "a") @@ ("B" :> "b") @@ ("C" :> "c") @@ ("D" :> "d") @@ ("E" :> "e") @@
  ("F" :> "f") @@ ("G" :> "g") @@ ("H" :> "h") @@ ("I" :> "i") @@ ("J" :> "j") @@
  ("K" :> "k") @@ ("L" :> "l") @@ ("M" :> "m") @@ ("N" :> "n") @@ ("O" :> "o") @@
  ("P" :> "p") @@ ("Q" :> "q") @@ ("R" :> "r") @@ ("S" :> "s") @@ ("T" :> "t") @@
  ("U" :> "u") @@ ("V" :> "v") @@ ("W" :> "w") @@ ("X" :> "x") @@ ("Y" :> "y") @@
  ("Z" :> "z")

\* str.lower()
lower(s) == [i \in 1..Len(s) |-> IF s[i] \in DOMAIN LowerOf THEN LowerOf[s[i]] ELSE s[i]]

\* s[i:].startswith(t), i counted from 1
StartsAt(s, i, t) ==
  /\ i + Len(t) - 1 <= Len(s)
  /\ \A k \in 1..Len(t) : s[i + k - 1] = t[k]

\* str.startswith
startswith(s, t) == StartsAt(s, 1, t)

\* t in s
contains(s, t) == \E i \in 1..(Len(s) + 1) : StartsAt(s, i, t)

RECURSIVE ReplaceFrom(_, _, _, _)
ReplaceFrom(s, i, old, new) ==
  IF i > Len(s) THEN <<>>
  ELSE IF StartsAt(s, i, old) THEN new \o ReplaceFrom(s, i + Len(old), old, new)
  ELSE <<s[i]>> \o ReplaceFrom(s, i + 1, old, new)

\* str.replace(old, new) for a non-empty old: every non-overlapping occurrence,
\* scanning from the left
replace(s, old, new) == ReplaceFrom(s, 1, old, new)

RECURSIVE join(_, _)
\* sep.join(xs)
join(sep, xs) ==
  IF Len(xs) = 0 THEN <<>>
  ELSE IF Len(xs) = 1 THEN xs[1]
  ELSE xs[1] \o sep \o join(sep, Tail(xs))

Whitespace == {" ", "\t", "\n"}

RECURSIVE split_from(_, _, _)
split_from(s, i, cur) ==
  LET done == IF Len(cur) = 0 THEN <<>> ELSE <<cur>>
  IN  IF i > Len(s) THEN done
      ELSE IF s[i] \in Whitespace THEN done \o split_from(s, i + 1, <<>>)
      ELSE split_from(s, i + 1, Append(cur, s[i]))

\* str.split(): the runs of characters between whitespace
str_split(s) == split_from(s, 1, <<>>)

\* shlex.split(s) of a string without quotes, backslashes or escapes, where it is
\* the split at whitespace
split(s) == split_from(s, 1, <<>>)

\* str.strip()
strip(s) ==
  LET keep == {i \in 1..Len(s) : s[i] \notin Whitespace}
  IN  IF keep = {} THEN <<>>
      ELSE SubSeq(s, CHOOSE i \in keep : \A j \in keep : i <= j,
                     CHOOSE i \in keep : \A j \in keep : j <= i)

\* the characters shlex.quote leaves alone: [\w@%+=:,./-] (ASCII)
SafeChars ==
  {
    "a", "b", "c", "d", "e", "f", "g", "h", "i", "j", "k", "l", "m", "n", "o", "p",
    "q", "r", "s", "t", "u", "v", "w", "x", "y", "z", "A", "B", "C", "D", "E", "F",
    "G", "H", "I", "J", "K", "L", "M", "N", "O", "P", "Q", "R", "S", "T", "U", "V",
    "W", "X", "Y", "Z", "0", "1", "2", "3", "4", "5", "6", "7", "8", "9", "_", "@",
    "%", "+", "=", ":", ",", ".", "/", "-" }

\* shlex.quote(s)
quote(s) ==
  IF Len(s) = 0 THEN <<"'", "'">>
  ELSE IF \A i \in 1..Len(s) : s[i] \in SafeChars THEN s
  ELSE <<"'">> \o replace(s, <<"'">>, <<"'", "\"", "'", "\"", "'">>) \o <<"'">>

\* xs[1:]
drop_first(xs) == IF Len(xs) = 0 THEN <<>> ELSE Tail(xs)

\* ------------------------------------------------------------ the registry
\* TAR-based compressed formats
TarFormats ==
  <<
    [name |-> <<"t","a","r","_","b","z","2">>,
     config |-> [patterns |-> <<<<"\\",".","t","a","r","\\",".","b","z","2","$">>, <<"\\",".","t","b","z","2","?","$">>>>,
            compression |-> <<[tools |-> <<<<"p","b","z","i","p","2">>, <<"l","b","z","i","p","2">>, <<"b","z","i","p","2">>>>, flags |-> <<<<"-","c","f">>>>]>>,
            extraction |-> <<[tools |-> <<<<"t","a","r">>>>, flags |-> <<<<"-","x","f">>>>]>>]],
    [name |-> <<"t","a","r","_","b","z","3">>,
     config |-> [patterns |-> <<<<"\\",".","t","a","r","\\",".","b","z","3","$">>, <<"\\",".","t","b","z","3","$">>>>,
            special_extraction |-> <<"p","i","p","e">>,
            compression |-> <<[tools |-> <<<<"b","z","i","p","3">>>>, flags |-> <<<<"-","c","f">>>>]>>,
            extraction |-> <<[tools |-> <<<<"t","a","r">>>>, flags |-> <<<<"-","x","f">>>>]>>]],
    [name |-> <<"t","a","r","_","g","z">>,
     config |-> [patterns |-> <<<<"\\",".","t","a","r","\\",".","g","z","$">>, <<"\\",".","t","g","z","$">>, <<"\\",".","t","a","z","$">>>>,
            compression |-> <<[tools |-> <<<<"p","i","g","z">>, <<"g","z","i","p">>>>, flags |-> <<<<"-","c","f">>>>]>>,
            extraction |-> <<[tools |-> <<<<"t","a","r">>>>, flags |-> <<<<"-","x","f">>>>]>>]],
    [name |-> <<"t","a","r","_","x","z">>,
     config |-> [patterns |-> <<<<"\\",".","t","a","r","\\",".","x","z","$">>, <<"\\",".","t","x","z","$">>, <<"\\",".","t","l","z","$">>>>,
            compression |-> <<[tools |-> <<<<"p","i","x","z">>, <<"x","z">>>>, flags |-> <<<<"-","c","f">>>>]>>,
            extraction |-> <<[tools |-> <<<<"t","a","r">>>>, flags |-> <<<<"-","x","f">>>>]>>]],
    [name |-> <<"t","a","r","_","l","z","4">>,
     config |-> [patterns |-> <<<<"\\",".","t","a","r","\\",".","l","z","4","$">>>>,
            compression |-> <<[tools |-> <<<<"l","z","4">>>>, flags |-> <<<<"-","c","f">>>>]>>,
            extraction |-> <<[tools |-> <<<<"t","a","r">>>>, flags |-> <<<<"-","x","f">>>>]>>]],
    [name |-> <<"t","a","r","_","l","r","z">>,
     config |-> [patterns |-> <<<<"\\",".","t","a","r","\\",".","l","r","z","$">>>>,
            compression |-> <<[tools |-> <<<<"l","r","z","i","p">>>>, flags |-> <<<<"-","c","f">>>>]>>,
            extraction |-> <<[tools |-> <<<<"t","a","r">>>>, flags |-> <<<<"-","x","f">>>>]>>]],
    [name |-> <<"t","a","r","_","l","z","i","p">>,
     config |-> [patterns |-> <<<<"\\",".","t","a","r","\\",".","l","z","$">>>>,
            compression |-> <<[tools |-> <<<<"p","l","z","i","p">>, <<"l","z","i","p">>>>, flags |-> <<<<"-","c","f">>>>]>>,
            extraction |-> <<[tools |-> <<<<"t","a","r">>>>, flags |-> <<<<"-","x","f">>>>]>>]],
    [name |-> <<"t","a","r","_","l","z","o","p">>,
     config |-> [patterns |-> <<<<"\\",".","t","a","r","\\",".","l","z","o","p","$">>, <<"\\",".","t","z","o","$">>>>,
            compression |-> <<[tools |-> <<<<"l","z","o","p">>>>, flags |-> <<<<"-","c","f">>>>]>>,
            extraction |-> <<[tools |-> <<<<"t","a","r">>>>, flags |-> <<<<"-","x","f">>>>]>>]],
    [name |-> <<"t","a","r","_","z","s","t">>,
     config |-> [patterns |-> <<<<"\\",".","t","a","r","\\",".","z","s","t","$">>>>,
            compression |-> <<[tools |-> <<<<"z","s","t","d">>>>, flags |-> <<<<"-","c","f">>>>]>>,
            extraction |-> <<[tools |-> <<<<"t","a","r">>>>, flags |-> <<<<"-","x","f">>>>]>>]],
    [name |-> <<"t","a","r">>,
     config |-> [patterns |-> <<<<"\\",".","t","a","r","$">>>>,
            compression |-> <<[tools |-> <<<<"t","a","r">>>>, flags |-> <<<<"-","c","f">>>>],
                          [tools |-> <<<<"7","z">>>>, flags |-> <<<<"a">>>>]>>,
            extraction |-> <<[tools |-> <<<<"t","a","r">>>>, flags |-> <<<<"-","x","f">>>>]>>]]
  >>

\* Single-file compression formats
SingleFileFormats ==
  <<
    [name |-> <<"b","z","2">>,
     config |-> [patterns |-> <<<<"\\",".","b","z","2","$">>>>,
            single_file |-> TRUE,
            check_tar |-> TRUE,
            compression |-> <<[tools |-> <<<<"p","b","z","i","p","2">>, <<"l","b","z","i","p","2">>, <<"b","z","i","p","2">>>>, flags |-> <<<<"-","c">>>>]>>,
            extraction |-> <<[tools |-> <<<<"p","b","z","i","p","2">>, <<"l","b","z","i","p","2">>, <<"b","z","i","p","2">>>>, flags |-> <<<<"-","d","k">>>>]>>]],
    [name |-> <<"b","z","3">>,
     config |-> [patterns |-> <<<<"\\",".","b","z","3","$">>>>,
            single_file |-> TRUE,
            check_tar |-> TRUE,
            compression |-> <<[tools |-> <<<<"b","z","i","p","3">>>>, flags |-> <<<<"-","c">>>>]>>,
            extraction |-> <<[tools |-> <<<<"b","z","i","p","3">>>>, flags |-> <<<<"-","d","k">>>>]>>]],
    [name |-> <<"g","z">>,
     config |-> [patterns |-> <<<<"\\",".","g","z","$">>>>,
            single_file |-> TRUE,
            check_tar |-> TRUE,
            compression |-> <<[tools |-> <<<<"p","i","g","z">>, <<"g","z","i","p">>>>, flags |-> <<<<"-","c">>>>]>>,
            extraction |-> <<[tools |-> <<<<"p","i","g","z">>, <<"g","z","i","p">>>>, flags |-> <<<<"-","d","k">>>>]>>]],
    [name |-> <<"x","z">>,
     config |-> [patterns |-> <<<<"\\",".","x","z","$">>, <<"\\",".","l","z","m","a","$">>>>,
            single_file |-> TRUE,
            check_tar |-> TRUE,
            compression |-> <<[tools |-> <<<<"p","i","x","z">>, <<"x","z">>>>, flags |-> <<<<"-","c">>>>]>>,
            extraction |-> <<[tools |-> <<<<"p","i","x","z">>, <<"x","z">>>>, flags |-> <<<<"-","d","k">>>>]>>]],
    [name |-> <<"l","z","i","p">>,
     config |-> [patterns |-> <<<<"\\",".","l","z","$">>>>,
            single_file |-> TRUE,
            check_tar |-> TRUE,
            compression |-> <<[tools |-> <<<<"p","l","z","i","p">>, <<"l","z","i","p">>>>, flags |-> <<<<"-","c">>>>]>>,
            extraction |-> <<[tools |-> <<<<"p","l","z","i","p">>, <<"l","z","i","p">>>>, flags |-> <<<<"-","d","k">>>>]>>]],
    [name |-> <<"l","z","4">>,
     config |-> [patterns |-> <<<<"\\",".","l","z","4","$">>>>,
            single_file |-> TRUE,
            check_tar |-> TRUE,
            compression |-> <<[tools |-> <<<<"l","z","4">>>>, flags |-> <<<<"-","c">>>>]>>,
            extraction |-> <<[tools |-> <<<<"l","z","4">>>>, flags |-> <<<<"-","d","k">>>>]>>]],
    [name |-> <<"l","z","o","p">>,
     config |-> [patterns |-> <<<<"\\",".","l","z","o","p","$">>>>,
            single_file |-> TRUE,
            check_tar |-> TRUE,
            compression |-> <<[tools |-> <<<<"l","z","o","p">>>>, flags |-> <<<<"-","c">>>>]>>,
            extraction |-> <<[tools |-> <<<<"l","z","o","p">>>>, flags |-> <<<<"-","d","k">>>>]>>]],
    [name |-> <<"l","r","z","i","p">>,
     config |-> [patterns |-> <<<<"\\",".","l","r","z","$">>>>,
            single_file |-> TRUE,
            check_tar |-> TRUE,
            compression |-> <<[tools |-> <<<<"l","r","z","i","p">>>>, flags |-> <<<<"-","o">>, <<"-">>>>]>>,
            extraction |-> <<[tools |-> <<<<"l","r","z","i","p">>>>, flags |-> <<<<"-","d">>>>]>>]]
  >>

\* Standard archive formats
StandardFormats ==
  <<
    [name |-> <<"s","e","v","e","n","_","z","i","p">>,
     config |-> [patterns |-> <<<<"\\",".","7","z","$">>>>,
            compression |-> <<[tools |-> <<<<"7","z">>>>, flags |-> <<<<"a">>>>]>>,
            extraction |-> <<[tools |-> <<<<"7","z">>>>, flags |-> <<<<"x">>>>, output_flag |-> <<"-","o">>]>>]],
    [name |-> <<"r","a","r">>,
     config |-> [patterns |-> <<<<"\\",".","r","a","r","$">>>>,
            compression |-> <<[tools |-> <<<<"r","a","r">>>>, flags |-> <<<<"a">>, <<"-","r">>>>]>>,
            extraction |-> <<[tools |-> <<<<"u","n","r","a","r">>, <<"r","a","r">>>>, flags |-> <<<<"x">>>>, output_flag |-> <<"-","o","p">>],
                          [tools |-> <<<<"7","z">>>>, flags |-> <<<<"x">>>>, output_flag |-> <<"-","o">>]>>]],
    [name |-> <<"z","i","p">>,
     config |-> [patterns |-> <<<<"\\",".","z","i","p","$">>>>,
            compression |-> <<[tools |-> <<<<"z","i","p">>>>, flags |-> <<<<"-","r">>>>],
                          [tools |-> <<<<"7","z">>>>, flags |-> <<<<"a">>, <<"-","t","z","i","p">>>>]>>,
            extraction |-> <<[tools |-> <<<<"u","n","z","i","p">>>>, flags |-> <<>>, output_flag |-> <<"-","d">>],
                          [tools |-> <<<<"7","z">>>>, flags |-> <<<<"x">>>>, output_flag |-> <<"-","o">>]>>]],
    [name |-> <<"z","p","a","q">>,
     config |-> [patterns |-> <<<<"\\",".","z","p","a","q","$">>>>,
            compression |-> <<[tools |-> <<<<"z","p","a","q">>>>, flags |-> <<<<"a">>>>]>>,
            extraction |-> <<[tools |-> <<<<"z","p","a","q">>>>, flags |-> <<<<"x">>>>, output_flag |-> <<"-","t","o">>]>>]],
    [name |-> <<"d","e","b">>,
     config |-> [patterns |-> <<<<"\\",".","d","e","b","$">>>>,
            extraction |-> <<[tools |-> <<<<"a","r">>>>, flags |-> <<<<"-","x">>>>]>>]]
  >>

\* mutant of FORMATS: the single-file formats are registered before the tar formats
FORMATS_single_file_first == SingleFileFormats \o TarFormats \o StandardFormats

\* FORMATS: the registry, in registration order (a dict keeps insertion order)
FORMATS == TarFormats \o SingleFileFormats \o StandardFormats

FormatIds == 1..Len(FORMATS)

\* dict.get(key): None when the key is absent
get(d, key) == IF key \in DOMAIN d THEN Some(d[key]) ELSE None

\* truth value of dict.get(key) for the boolean keys
getflag(d, key) == key \in DOMAIN d /\ d[key]

AllPatterns == UNION {{FORMATS[i].config.patterns[k] : k \in 1..Len(FORMATS[i].config.patterns)} : i \in FormatIds}

\* --------------------------------------------------------------- re.search
\* The compiled form of a pattern: "\c" is the literal c, "." any character but a
\* newline, "$" the end of the string or the place before a final newline, any
\* other character itself; a following "?" makes the item optional.
RECURSIVE re_compile_from(_, _)
re_compile_from(p, i) ==
  IF i > Len(p) THEN <<>>
  ELSE
    LET esc  == p[i] = "\\" /\ i < Len(p)
        w    == IF esc THEN 2 ELSE 1
        kind == IF esc THEN "lit"
                ELSE IF p[i] = "$" THEN "end"
                ELSE IF p[i] = "." THEN "any"
                ELSE "lit"
        ch   == IF esc THEN p[i + 1] ELSE p[i]
        opt  == i + w <= Len(p) /\ p[i + w] = "?"
    IN  <<[kind |-> kind, ch |-> ch, opt |-> opt]>>
          \o re_compile_from(p, i + w + (IF opt THEN 1 ELSE 0))

re_compile == [p \in AllPatterns |-> re_compile_from(p, 1)]

RECURSIVE re_match_at(_, _, _, _)
re_match_at(items, k, s, j) ==
  IF k > Len(items) THEN TRUE
  ELSE
    LET it   == items[k]
        here == IF it.kind = "end"
                  THEN (j = Len(s) + 1 \/ (j = Len(s) /\ s[j] = "\n"))
                       /\ re_match_at(items, k + 1, s, j)
                ELSE /\ j <= Len(s)
                     /\ IF it.kind = "any" THEN s[j] # "\n" ELSE s[j] = it.ch
                     /\ re_match_at(items, k + 1, s, j + 1)
    IN  here \/ (it.opt /\ re_match_at(items, k + 1, s, j))

search(pattern, string) ==
  LET items == re_compile[pattern]
  IN  \E j \in 1..(Len(string) + 1) : re_match_at(items, 1, string, j)

\* ------------------------------------------------------------- the lookups
RECURSIVE match_from(_, _, _)
match_from(filename_lower, patterns, k) ==
  IF k > Len(patterns) THEN FALSE
  ELSE IF search(patterns[k], filename_lower) THEN TRUE
  ELSE match_from(filename_lower, patterns, k + 1)

\* mutant of match_format_patterns: the filename is not lower-cased
match_format_patterns_case_sensitive(filename, patterns) == match_from(filename, patterns, 1)

match_format_patterns(filename, patterns) == match_from(lower(filename), patterns, 1)

RECURSIVE find_format_from(_, _)
find_format_from(filename, i) ==
  IF i > Len(FORMATS) THEN [format_name |-> None, format_config |-> None]
  ELSE IF match_format_patterns(filename, FORMATS[i].config.patterns)
    THEN [format_name |-> Some(FORMATS[i].name), format_config |-> Some(FORMATS[i].config)]
  ELSE find_format_from(filename, i + 1)

\* find_archive_format on the FORMATS object as it is when the call reads it
RECURSIVE find_format_in(_, _, _)
find_format_in(formats, filename, i) ==
  IF i > Len(formats) THEN [format_name |-> None, format_config |-> None]
  ELSE IF match_format_patterns(filename, formats[i].config.patterns)
    THEN [format_name |-> Some(formats[i].name), format_config |-> Some(formats[i].config)]
  ELSE find_format_in(formats, filename, i + 1)

Stem == <<"n","o","t","e">>

\* the extensions of the archive names of the two public operations: one for every
\* registered pattern, and some that are mixed-case, doubled or unregistered
ArchiveExts ==
  {
    <<".","t","a","r",".","b","z","2">>, <<".","t","b","z">>, <<".","t","b","z","2">>,
    <<".","t","a","r",".","b","z","3">>, <<".","t","b","z","3">>,
    <<".","t","a","r",".","g","z">>, <<".","t","g","z">>, <<".","t","a","z">>,
    <<".","t","a","r",".","x","z">>, <<".","t","x","z">>, <<".","t","l","z">>,
    <<".","t","a","r",".","l","z","4">>, <<".","t","a","r",".","l","r","z">>,
    <<".","t","a","r",".","l","z">>, <<".","t","a","r",".","l","z","o","p">>,
    <<".","t","z","o">>, <<".","t","a","r",".","z","s","t">>, <<".","t","a","r">>,
    <<".","b","z","2">>, <<".","b","z","3">>, <<".","g","z">>, <<".","x","z">>,
    <<".","l","z","m","a">>, <<".","l","z">>, <<".","l","z","4">>, <<".","l","z","o","p">>,
    <<".","l","r","z">>, <<".","7","z">>, <<".","r","a","r">>, <<".","z","i","p">>,
    <<".","z","p","a","q">>, <<".","d","e","b">>, <<>>, <<".","t","x","t">>, <<".","G","Z">>,
    <<".","T","a","r",".","G","z">>, <<".","g","z",".","g","z">>,
    <<".","t","a","r",".","l","z","m","a">>, <<".","t","a","r",".","t","x","t">>,
    <<".","g","z",".","t","x","t">>
  }

ArchiveNames == {Stem \o e : e \in ArchiveExts}

\* the extensions of the archives the callers are applied to
CallerExts ==
  { <<>>, <<".", "z", "i", "p">>, <<".", "g", "z">>, <<".", "t", "a", "r", ".", "g", "z">>,
    <<".", "t", "a", "r", ".", "b", "z", "3">> }

\* the archives given to archive_cli.py, by name
CallerNames == {Stem \o e : e \in CallerExts}

\* the directory ranger shows
thisdir_path == <<"/", "d">>

\* the file.path of the files ranger can have selected
SelectionPaths == {thisdir_path \o <<"/">> \o n : n \in CallerNames}

\* the lookup of every archive name, computed once
FormatTable == [n \in ArchiveNames \cup SelectionPaths |-> find_format_from(n, 1)]

find_archive_format(filename) ==
  IF filename \in DOMAIN FormatTable THEN FormatTable[filename]
  ELSE find_format_from(filename, 1)


\* ------------------------------------------------------------ string data
s_tar == <<"t","a","r">>
s_tar_prefix == <<"t","a","r","_">>
s_cf == <<"-","c","f">>
s_xf == <<"-","x","f">>
s_C == <<"-","C">>
s_x == <<"x">>
s_sh == <<"s","h">>
s_c == <<"-","c">>
s_d == <<"-","d">>
s_o == <<"-","o">>
s_op == <<"-","o","p">>
s_to == <<"-","t","o">>
s_output_eq == <<"-","-","o","u","t","p","u","t","=">>
s_7z == <<"7","z">>
s_unzip == <<"u","n","z","i","p">>
s_zip == <<"z","i","p">>
s_pipe == <<"p","i","p","e">>
s_dot_tar == <<".","t","a","r">>
s_dot_tar_dot == <<".","t","a","r",".">>
s_dot_zip == <<".","z","i","p">>
s_use_compress_program == <<"-","-","u","s","e","-","c","o","m","p","r","e","s","s","-","p","r","o","g","r","a","m">>
s_dc == <<" ","-","d","c"," ","'">>
s_pipe_tar == <<"'"," ","|"," ">>
s_xf_stdin == <<" ","-","x","f"," ","-">>
s_C_quote == <<" ","-","C"," ","'">>
s_quote == <<"'">>
s_space == <<" ">>
s_space_quote == <<" ","'">>
s_redirect == <<"'"," ",">"," ","'">>

\* the directory of PATH in which the host's binaries are found
BinDir == <<"/","b","i","n","/">>

\* ------------------------------------------------------ tool availability
\* shutil.which(cmd)
which(cmd) == IF cmd \in host THEN Some(BinDir \o cmd) ELSE None

is_command_available(cmd) ==
  IF cmd = <<>> THEN FALSE ELSE which(cmd) # None

RECURSIVE find_tool_from(_, _)
find_tool_from(tools, k) ==
  IF k > Len(tools) THEN None
  ELSE IF is_command_available(tools[k]) THEN Some(tools[k])
  ELSE find_tool_from(tools, k + 1)

find_available_tool(tools) ==
  IF Len(tools) = 0 THEN None ELSE find_tool_from(tools, 1)

NoTool == [tool |-> None, flags |-> None, output_flag |-> None]

\* mutant of find_group_from: the loop does not stop at the first group that has a
\* tool, so a later group overrides it
RECURSIVE find_group_last(_, _)
find_group_last(groups, g) ==
  IF g > Len(groups) THEN NoTool
  ELSE
    LET rest == find_group_last(groups, g + 1)
        tool == find_available_tool(groups[g].tools)
    IN  IF Truthy(rest.tool) THEN rest
        ELSE IF Truthy(tool)
          THEN [tool |-> tool, flags |-> Some(groups[g].flags),
                output_flag |-> get(groups[g], "output_flag")]
        ELSE NoTool

RECURSIVE find_group_from(_, _)
find_group_from(groups, g) ==
  IF g > Len(groups) THEN NoTool
  ELSE
    LET tool == find_available_tool(groups[g].tools)
    IN  IF Truthy(tool)
          THEN [tool |-> tool, flags |-> Some(groups[g].flags),
                output_flag |-> get(groups[g], "output_flag")]
          ELSE find_group_from(groups, g + 1)

find_available_tool_group(groups) ==
  IF Len(groups) = 0 THEN NoTool ELSE find_group_from(groups, 1)

is_tar_format(format_name) ==
  /\ Truthy(format_name)
  /\ (startswith(format_name[1], s_tar_prefix) \/ format_name[1] = s_tar)

\* Path(file_path).name: the last component, trailing slashes dropped
RECURSIVE path_name(_)
path_name(p) ==
  IF Len(p) = 0 THEN <<>>
  ELSE IF p[Len(p)] = "/" THEN path_name(SubSeq(p, 1, Len(p) - 1))
  ELSE LET cut == {i \in 1..Len(p) : p[i] = "/"}
       IN  IF cut = {} THEN p
           ELSE SubSeq(p, (CHOOSE i \in cut : \A j \in cut : j <= i) + 1, Len(p))

is_compressed_tar_archive(file_path) ==
  contains(lower(path_name(file_path)), s_dot_tar_dot)

\* ------------------------------------------------------ results of a call
Ok(v) == [exc |-> "", value |-> v]
Raise(e) == [exc |-> e, value |-> <<>>]

\* FORMATS[name], for a name that is a key
RECURSIVE format_index(_, _)
format_index(name, i) ==
  IF i > Len(FORMATS) THEN 0
  ELSE IF FORMATS[i].name = name THEN i
  ELSE format_index(name, i + 1)

\* format_config.get("fallback") and format_config["fallback"] in FORMATS
has_fallback(format_config) ==
  /\ Truthy(get(format_config, "fallback"))
  /\ format_index(format_config.fallback, 1) # 0

fallback_of(format_config) == FORMATS[format_index(format_config.fallback, 1)].config

\* --------------------------------------------------------- ArchiveCompressor
build_standard_command(tool, tool_flags, flags, name, fs) ==
  <<which(tool)[1]>> \o tool_flags \o flags \o <<name>> \o fs

\* mutant of build_tar_command_with_compression: the files come before the
\* compression program
build_tar_command_files_first(tool, tool_flags, flags, name, fs) ==
  IF ~is_command_available(s_tar) THEN <<>>
  ELSE <<which(s_tar)[1]>> \o tool_flags \o flags
         \o <<name>> \o fs \o <<s_use_compress_program, which(tool)[1]>>

build_tar_command_with_compression(tool, tool_flags, flags, name, fs) ==
  IF ~is_command_available(s_tar) THEN <<>>
  ELSE <<which(s_tar)[1]>> \o tool_flags \o flags
         \o <<name, s_use_compress_program, which(tool)[1]>> \o fs

get_fallback_compression_command(name, flags, fs) ==
  LET zip_config == FORMATS[format_index(s_zip, 1)].config
      r == find_available_tool_group(zip_config.compression)
  IN  IF Truthy(r.tool)
        THEN build_standard_command(r.tool[1], r.flags[1], flags, name \o s_dot_zip, fs)
        ELSE <<>>

\* the body of the loops of _convert_to_tar_format once a pattern has matched
convert_matched(tool, flags, name, fs, pattern) ==
  LET clean_pattern == replace(replace(pattern, <<"\\", ".">>, <<".">>), <<"$">>, <<>>)
      tar_name == replace(name, clean_pattern, s_dot_tar \o clean_pattern)
      tf == find_archive_format(tar_name)
  IN  IF Len(tf.format_config) = 1 /\ is_tar_format(tf.format_name)
        THEN IF "compression" \notin DOMAIN tf.format_config[1] THEN Raise("KeyError")
             ELSE LET r == find_available_tool_group(tf.format_config[1].compression)
                  IN  IF Truthy(r.flags)
                        THEN Ok(build_tar_command_with_compression(
                                  r.tool[1], r.flags[1], flags, tar_name, fs))
                        ELSE Ok(build_tar_command_with_compression(
                                  tool, <<s_cf>>, flags, tar_name, fs))
        ELSE Ok(build_tar_command_with_compression(tool, <<s_cf>>, flags, tar_name, fs))

RECURSIVE convert_from(_, _, _, _, _, _)
convert_from(tool, flags, name, fs, i, k) ==
  IF i > Len(FORMATS)
    THEN Ok(build_tar_command_with_compression(tool, <<s_cf>>, flags, name \o s_dot_tar, fs))
  ELSE IF ~getflag(FORMATS[i].config, "single_file") \/ k > Len(FORMATS[i].config.patterns)
    THEN convert_from(tool, flags, name, fs, i + 1, 1)
  ELSE IF search(FORMATS[i].config.patterns[k], lower(name))
    THEN convert_matched(tool, flags, name, fs, FORMATS[i].config.patterns[k])
  ELSE convert_from(tool, flags, name, fs, i, k + 1)

convert_to_tar_format(tool, tool_flags, flags, name, fs) ==
  convert_from(tool, flags, name, fs, 1, 1)

\* mutant of handle_single_file_compression: the input file and the archive name
\* are swapped in the redirection
handle_single_file_swapped(tool, tool_flags, flags, name, fs) ==
  IF Len(fs) = 1
    THEN LET flags_str == join(s_space, tool_flags \o flags)
         IN  Ok(<<s_sh, s_c,
                  which(tool)[1] \o s_space \o flags_str \o s_space_quote \o name
                    \o s_redirect \o fs[1] \o s_quote>>)
    ELSE convert_to_tar_format(tool, tool_flags, flags, name, fs)

handle_single_file_compression(tool, tool_flags, flags, name, fs) ==
  IF Len(fs) = 1
    THEN LET flags_str == join(s_space, tool_flags \o flags)
         IN  Ok(<<s_sh, s_c,
                  which(tool)[1] \o s_space \o flags_str \o s_space_quote \o fs[1]
                    \o s_redirect \o name \o s_quote>>)
    ELSE convert_to_tar_format(tool, tool_flags, flags, name, fs)

compress_with_tool(format_name, format_config, r, flags, name, fs) ==
  IF getflag(format_config, "single_file")
    THEN handle_single_file_compression(r.tool[1], r.flags[1], flags, name, fs)
  ELSE IF is_tar_format(format_name)
    THEN IF format_name[1] = s_tar
           THEN Ok(build_standard_command(r.tool[1], r.flags[1], flags, name, fs))
           ELSE Ok(build_tar_command_with_compression(r.tool[1], r.flags[1], flags, name, fs))
  ELSE Ok(build_standard_command(r.tool[1], r.flags[1], flags, name, fs))

compress_without_tool(format_config, flags, name, fs) ==
  IF has_fallback(format_config)
    THEN IF "compression" \notin DOMAIN fallback_of(format_config) THEN Raise("KeyError")
         ELSE LET fr == find_available_tool_group(fallback_of(format_config).compression)
              IN  IF Truthy(fr.tool)
                    THEN Ok(build_standard_command(fr.tool[1], fr.flags[1], flags, name, fs))
                    ELSE Ok(get_fallback_compression_command(name, flags, fs))
    ELSE Ok(get_fallback_compression_command(name, flags, fs))

\* ArchiveCompressor.get_command, for the format its lookup found
compress_with_format(f, name, flags, fs) ==
      IF Len(f.format_config) = 0
        THEN Ok(get_fallback_compression_command(name, flags, fs))
      ELSE IF "compression" \notin DOMAIN f.format_config[1] THEN Raise("KeyError")
      ELSE LET r == find_available_tool_group(f.format_config[1].compression)
           IN  IF ~Truthy(r.tool)
                 THEN compress_without_tool(f.format_config[1], flags, name, fs)
                 ELSE compress_with_tool(f.format_name, f.format_config[1], r, flags, name, fs)

compress_get_command(name, flags, fs) ==
  compress_with_format(find_archive_format(name), name, flags, fs)

\* ------------------------------------------------------- ArchiveDecompressor
\* the pipeline with the directory given to the first stage
build_pipe_extraction_command_dir_first(name, format_config, dir) ==
  IF "compression" \notin DOMAIN format_config THEN Raise("KeyError")
  ELSE
    LET r == find_available_tool_group(format_config.compression)
    IN  IF Truthy(r.tool) /\ is_command_available(s_tar)
          THEN Ok(<<s_sh, s_c,
                    which(r.tool[1])[1] \o s_dc \o name \o s_quote
                      \o (IF Truthy(dir) THEN s_C_quote \o dir[1] \o s_quote ELSE <<>>)
                      \o <<" ", "|", " ">> \o which(s_tar)[1] \o s_xf_stdin>>)
          ELSE Ok(<<>>)

build_pipe_extraction_command(name, format_config, dir) ==
  IF "compression" \notin DOMAIN format_config THEN Raise("KeyError")
  ELSE
    LET r == find_available_tool_group(format_config.compression)
    IN  IF Truthy(r.tool) /\ is_command_available(s_tar)
          THEN LET pipe_cmd == which(r.tool[1])[1] \o s_dc \o name \o s_pipe_tar
                                 \o which(s_tar)[1] \o s_xf_stdin
               IN  Ok(<<s_sh, s_c,
                        IF Truthy(dir) THEN pipe_cmd \o s_C_quote \o dir[1] \o s_quote
                                       ELSE pipe_cmd>>)
          ELSE Ok(<<>>)

\* the user flags ahead of the tool's own
build_single_file_extraction_command_user_flags_first(name, format_config, flags) ==
  IF "extraction" \notin DOMAIN format_config THEN Raise("KeyError")
  ELSE
    LET r == find_available_tool_group(format_config.extraction)
    IN  IF Truthy(r.tool)
          THEN Ok(<<which(r.tool[1])[1]>> \o flags \o r.flags[1] \o <<name>>)
          ELSE Ok(<<>>)

build_single_file_extraction_command(name, format_config, flags) ==
  IF "extraction" \notin DOMAIN format_config THEN Raise("KeyError")
  ELSE
    LET r == find_available_tool_group(format_config.extraction)
    IN  IF Truthy(r.tool)
          THEN Ok(<<which(r.tool[1])[1]>> \o r.flags[1] \o flags \o <<name>>)
          ELSE Ok(<<>>)

build_extraction_command(tool, tool_flags, flags, output_flag, name, dir) ==
  LET cmd == <<which(tool)[1]>> \o tool_flags \o flags \o <<name>>
  IN  IF Truthy(dir) /\ Truthy(output_flag)
        THEN IF output_flag[1] \in {s_o, s_op, s_output_eq}
               THEN Append(cmd, output_flag[1] \o dir[1])
             ELSE IF output_flag[1] \in {s_d, s_to}
               THEN cmd \o <<output_flag[1], dir[1]>>
             ELSE IF output_flag[1] = <<>>
               THEN Append(cmd, dir[1])
             ELSE cmd \o <<output_flag[1], dir[1]>>
      ELSE IF Truthy(dir) /\ tool = s_tar
        THEN cmd \o <<s_C, dir[1]>>
      ELSE cmd

\* "[f\"-o{to_dir}\"] if to_dir is not None else []"
dir_o_is_not_none(dir) == IF dir # None THEN <<s_o \o dir[1]>> ELSE <<>>

\* the directory argument of the last-resort commands
dir_o(dir) == IF Truthy(dir) THEN <<s_o \o dir[1]>> ELSE <<>>

get_fallback_extraction_command(name, flags, dir) ==
  IF is_command_available(s_7z)
    THEN <<which(s_7z)[1], s_x>> \o flags \o <<name>> \o dir_o(dir)
  ELSE IF is_command_available(s_unzip)
    THEN <<which(s_unzip)[1]>> \o flags \o <<name>>
           \o (IF Truthy(dir) THEN <<s_d, dir[1]>> ELSE <<>>)
  ELSE <<s_7z, s_x>> \o flags \o <<name>> \o dir_o(dir)

\* "Standard extraction" and what follows it in ArchiveDecompressor.get_command
standard_extraction(name, format_config, flags, dir) ==
  IF "extraction" \notin DOMAIN format_config THEN Raise("KeyError")
  ELSE
    LET r1 == find_available_tool_group(format_config.extraction)
        try_fallback == ~Truthy(r1.tool) /\ has_fallback(format_config)
    IN  IF try_fallback /\ "extraction" \notin DOMAIN fallback_of(format_config)
          THEN Raise("KeyError")
        ELSE
          LET r == IF try_fallback
                     THEN find_available_tool_group(fallback_of(format_config).extraction)
                     ELSE r1
          IN  IF ~Truthy(r.tool)
                THEN Ok(get_fallback_extraction_command(name, flags, dir))
                ELSE Ok(build_extraction_command(
                          r.tool[1], r.flags[1], flags, r.output_flag, name, dir))

\* ArchiveDecompressor.get_command, after the destination directory was made, for
\* the format its lookup found
decompress_with_format(f, name, flags, dir) ==
  LET cfg == f.format_config
  IN  IF Len(cfg) = 1 /\ get(cfg[1], "special_extraction") = Some(s_pipe)
        THEN build_pipe_extraction_command(name, cfg[1], dir)
      ELSE IF Len(cfg) = 0
        THEN Ok(get_fallback_extraction_command(name, flags, dir))
      ELSE IF getflag(cfg[1], "check_tar")
        THEN IF is_compressed_tar_archive(name)
               THEN IF is_command_available(s_tar)
                      THEN Ok(<<which(s_tar)[1], s_xf, name>>
                                \o (IF Truthy(dir) THEN <<s_C, dir[1]>> ELSE <<>>)
                                \o flags)
                      ELSE standard_extraction(name, cfg[1], flags, dir)
               ELSE build_single_file_extraction_command(name, cfg[1], flags)
      ELSE standard_extraction(name, cfg[1], flags, dir)

\* ArchiveDecompressor.get_command, after the destination directory was made
decompress_get_command(name, flags, dir) ==
  decompress_with_format(find_archive_format(name), name, flags, dir)

\* the path and each of its parents, as pathlib normalises them
mkdir_parents(p) ==
  {SubSeq(p, 1, i) : i \in {j \in 1..Len(p) : (j = Len(p) \/ p[j + 1] = "/") /\ p[j] # "/"}}

\* Path(p).mkdir(parents, exist_ok) in a file system whose directories are D (no
\* regular file stands at p or above it): the outcome and the directories afterwards
mkdir(p, parents, exist_ok, D) ==
  LET chain == mkdir_parents(p)
      leaf  == CHOOSE c \in chain : \A e \in chain : Len(e) <= Len(c)
  IN  IF leaf \in D
        THEN [exc |-> IF exist_ok THEN "" ELSE "FileExistsError", dirs |-> D]
      ELSE IF ~parents /\ ~((chain \ {leaf}) \subseteq D)
        THEN [exc |-> "FileNotFoundError", dirs |-> D]
      ELSE [exc |-> "", dirs |-> D \cup chain]

\* "if to_dir: Path(to_dir).mkdir(parents=True, exist_ok=False)"
ensure_dir_not_exist_ok(dir, D) ==
  IF Truthy(dir) THEN mkdir(dir[1], TRUE, FALSE, D) ELSE [exc |-> "", dirs |-> D]

\* "if to_dir: Path(to_dir).mkdir(parents=True, exist_ok=True)"
ensure_dir(dir, D) ==
  IF Truthy(dir) THEN mkdir(dir[1], TRUE, TRUE, D) ELSE [exc |-> "", dirs |-> D]

\* ArchiveDecompressor.get_command in a file system whose directories are D: what
\* it returns or raises, and the directories afterwards
\* (r, the value returned, is bound as the one element of a set: it is computed
\* once, as a local variable is)
ArchiveDecompressor_get_command(name, flags, dir, D) ==
  LET m == ensure_dir(dir, D)
  IN  IF m.exc # ""
        THEN [exc |-> m.exc, value |-> <<>>, dirs |-> m.dirs]
      ELSE CHOOSE out \in {[exc |-> r.exc, value |-> r.value, dirs |-> m.dirs]
                              : r \in {decompress_get_command(name, flags, dir)}} : TRUE

\* ------------------------------------------------ the registry as an object
\* the position in FORMATS of the format a lookup returned
index_of(f) == CHOOSE i \in FormatIds : FORMATS[i].name = f.format_name[1]

RECURSIVE FORMATS_after(_, _)
\* the FORMATS object after the first k of the writes: a write [format, flags] is
\* an in-place extension of the flag list of that format's first extraction group
FORMATS_after(writes, k) ==
  IF k = 0 THEN FORMATS
  ELSE [FORMATS_after(writes, k - 1)
          EXCEPT ![writes[k].format].config.extraction[1].flags = @ \o writes[k].flags]

\* the FORMATS object as a call reads it
FORMATS_now(writes) == FORMATS_after(writes, Len(writes))

\* "tool_flags.extend(user_flags)": the flag list of the format's first extraction
\* group, which the lookup hands out by reference, grows by the user flags
registry_after_extend(writes, f, flags) ==
  IF f.format_name = None THEN writes
  ELSE Append(writes, [format |-> index_of(f), flags |-> flags])

\* the writes after a command was built from the format f and the user flags: the
\* builders unpack tool_flags and user_flags into new lists ([which(tool),
\* *tool_flags, *user_flags, ...], tool_flags + user_flags), which writes nothing
\* to the lists of the registry
registry_after_build(writes, f, flags) == writes

\* ------------------------------------------------------------ archive_cli
parse_escape_args(args) ==
  LET words == split(args) IN [i \in 1..Len(words) |-> quote(words[i])]

\* Path.cwd()
Path_cwd == <<"/", "d">>

\* run_command(command, cwd) when subprocess.run ends as outcome ("0": return code
\* 0, "1": another return code, "raise": an exception): the value returned
run_command(command, cwd, outcome) == IF outcome = "0" THEN "True" ELSE "False"

\* compress_files(archive_name, files, flags, cwd) after the runs S
compress_files(name, fs, flags, cwd, outcome, S) ==
  LET flag_list == IF Len(flags) > 0 THEN parse_escape_args(flags) ELSE <<>>
      work_dir == IF Truthy(cwd) THEN cwd[1] ELSE Path_cwd
  IN  CHOOSE out \in {
        IF c.exc # ""
          THEN [exc |-> c.exc, flag_list |-> flag_list, command |-> <<>>,
                started |-> S, success |-> "none"]
        ELSE IF Len(c.value) = 0
          THEN [exc |-> "", flag_list |-> flag_list, command |-> <<>>,
                started |-> S, success |-> "False"]
        ELSE [exc |-> "", flag_list |-> flag_list, command |-> c.value,
              started |-> Append(S, [command |-> c.value, cwd |-> Some(work_dir)]),
              success |-> run_command(c.value, Some(work_dir), outcome)]
        : c \in {compress_get_command(name, flag_list, fs)}} : TRUE

\* decompress_archive(archive_name, output_dir, flags) after the runs S, in a
\* file system whose directories are D
decompress_archive(name, output_dir, flags, outcome, S, D) ==
  LET flag_list == IF Len(flags) > 0 THEN parse_escape_args(flags) ELSE <<>>
  IN  CHOOSE out \in {
        IF c.exc # ""
          THEN [exc |-> c.exc, flag_list |-> flag_list, command |-> <<>>, dirs |-> c.dirs,
                started |-> S, success |-> "none"]
        ELSE IF Len(c.value) = 0
          THEN [exc |-> "", flag_list |-> flag_list, command |-> <<>>, dirs |-> c.dirs,
                started |-> S, success |-> "False"]
        ELSE [exc |-> "", flag_list |-> flag_list, command |-> c.value, dirs |-> c.dirs,
              started |-> Append(S, [command |-> c.value, cwd |-> None]),
              success |-> run_command(c.value, None, outcome)]
        : c \in {ArchiveDecompressor_get_command(name, flag_list, output_dir, D)}} : TRUE

\* ------------------------------------------------------------- extract.py
s_Extracting == <<"E", "x", "t", "r", "a", "c", "t", "i", "n", "g", ":", " ">>

\* Path(p).stem: the last component without its last suffix
path_stem(p) ==
  LET name == path_name(p)
      dots == {i \in 1..Len(name) : name[i] = "."}
      last == IF dots = {} THEN 0 ELSE CHOOSE i \in dots : \A j \in dots : j <= i
  IN  IF 1 < last /\ last < Len(name) THEN SubSeq(name, 1, last - 1) ELSE name

\* the CommandLoader job added for a plan, or the exception that ended the command
add_loader(path, r, L) ==
  IF r.exc # ""
    THEN [exc |-> r.exc, dirs |-> r.dirs, loader |-> L]
    ELSE [exc |-> "", dirs |-> r.dirs,
          loader |-> Append(L, [args |-> r.value,
                                descr |-> s_Extracting \o path_name(path)])]

\* extract._extract_file
extract_file(path, dirname_raw, D, L) ==
  add_loader(path,
    ArchiveDecompressor_get_command(
      path, <<>>, IF Len(dirname_raw) > 0 THEN Some(dirname_raw) ELSE None, D), L)

\* extract_raw._extract_file_with_flags
extract_file_with_flags(path, flags, D, L) ==
  add_loader(path, ArchiveDecompressor_get_command(path, flags, None, D), L)

\* extract_to_dirs._extract_file_to_dir
extract_file_to_dir(path, flags, dirname, D, L) ==
  add_loader(path, ArchiveDecompressor_get_command(path, flags, Some(dirname), D), L)

\* "for file in files:" of the three commands, from the k-th selected file on
RECURSIVE for_file_in_files(_, _, _, _, _, _)
for_file_in_files(command, selection, k, arg, D, L) ==
  IF k > Len(selection) THEN [exc |-> "", dirs |-> D, loader |-> L]
  ELSE LET path == selection[k]
       IN  CHOOSE out \in {
             IF r.exc # "" THEN r
             ELSE for_file_in_files(command, selection, k + 1, arg, r.dirs, r.loader)
             : r \in {IF command = "extract" THEN extract_file(path, arg, D, L)
                      ELSE IF command = "extract_raw"
                        THEN extract_file_with_flags(path, arg, D, L)
                      ELSE extract_file_to_dir(path, arg, path_stem(path), D, L)}} : TRUE

\* ------------------------------------------------------------ the inputs
Range(s) == {s[i] : i \in 1..Len(s)}

\* the tool-group lists of the registry
RegistryGroupLists ==
  UNION {{FORMATS[i].config[k] : k \in {"compression", "extraction"}
                                     \cap DOMAIN FORMATS[i].config}
           : i \in FormatIds}

\* the lists the resolver is applied to: the empty list, the registry's lists, and
\* the lists made of two of them (up to four groups)
GroupLists ==
  {<<>>} \cup RegistryGroupLists
         \cup {a \o b : a \in {gl \in RegistryGroupLists : Len(gl) = 2},
                         b \in {gl \in RegistryGroupLists : Len(gl) = 2}}

\* the binaries the registry names
Tools == UNION {UNION {Range(gl[g].tools) : g \in 1..Len(gl)} : gl \in RegistryGroupLists}

RECURSIVE HostsUpTo(_)
HostsUpTo(n) ==
  IF n = 0 THEN {{}}
  ELSE LET H == HostsUpTo(n - 1) IN H \cup {h \cup {t} : h \in H, t \in Tools}

\* the hosts considered: at most MaxInstalled of the binaries the registry names
Hosts == HostsUpTo(MaxInstalled)

ExtPieces ==
  { <<".","t","a","r">>, <<".","b","z","2">>, <<".","t","b","z">>, <<".","t","b","z","2">>,
    <<".","b","z","3">>, <<".","t","b","z","3">>, <<".","g","z">>, <<".","t","g","z">>,
    <<".","t","a","z">>, <<".","x","z">>, <<".","t","x","z">>, <<".","t","l","z">>,
    <<".","l","z","4">>, <<".","l","r","z">>, <<".","l","z">>, <<".","l","z","o","p">>,
    <<".","t","z","o">>, <<".","z","s","t">>, <<".","l","z","m","a">>, <<".","7","z">>,
    <<".","r","a","r">>, <<".","z","i","p">>, <<".","z","p","a","q">>, <<".","d","e","b">>,
    <<".","t","x","t">>, <<".","G","Z">>, <<".","T","a","r">>, <<"g","z">>, <<"\n">> }

RECURSIVE ExtsUpTo(_)
ExtsUpTo(n) ==
  IF n = 0 THEN {<<>>}
  ELSE LET E == ExtsUpTo(n - 1) IN E \cup {e \o p : e \in E, p \in ExtPieces}

\* the filenames looked up: a stem and at most MaxExts extension pieces
Names == {Stem \o e : e \in ExtsUpTo(MaxExts)}

FlagLists == {<<>>, <<<<"-","v">>>>}

FileNames == << <<"a",".","t","x","t">>, <<"b",".","t","x","t">>, <<"c",".","t","x","t">> >>

\* the file lists: one file, and the first 2..MaxFiles of FileNames
FileLists ==
  { <<<<"n","o","t","e",".","t","x","t">>>> } \cup {SubSeq(FileNames, 1, k) : k \in 2..MaxFiles}

Dests == {None, Some(<<>>), Some(<<"o","u","t">>)}

\* the --flags strings given to archive_cli.py
FlagStrings == {<<>>, <<"-", "v">>, <<"-", "x", " ", "*">>}

\* the --cwd values given to archive_cli.py
Cwds == {None, Some(<<"w", "o", "r", "k">>)}

\* how subprocess.run can end: return code 0, another return code, an exception
RunOutcomes == {"0", "1", "raise"}

RECURSIVE SelectionsUpTo(_)
SelectionsUpTo(n) ==
  IF n = 0 THEN {<<>>}
  ELSE LET S == SelectionsUpTo(n - 1)
       IN  S \cup {Append(sel, f) : sel \in S, f \in SelectionPaths}

\* what fm.thisdir.get_selection() can return: at most MaxFiles distinct files
Selections ==
  {sel \in SelectionsUpTo(MaxFiles) : \A i, j \in 1..Len(sel) : i # j => sel[i] # sel[j]}

\* the command lines typed in ranger
ExtractLines == {<<"e", "x", "t", "r", "a", "c", "t">>, <<"e", "x", "t", "r", "a", "c", "t", " ", "o", "u", "t">>}
ExtractRawLines == {<<"e", "x", "t", "r", "a", "c", "t", "_", "r", "a", "w">>, <<"e", "x", "t", "r", "a", "c", "t", "_", "r", "a", "w", " ", "-", "v">>}
ExtractToDirsLines == {<<"e", "x", "t", "r", "a", "c", "t", "_", "t", "o", "_", "d", "i", "r", "s">>, <<"e", "x", "t", "r", "a", "c", "t", "_", "t", "o", "_", "d", "i", "r", "s", " ", "-", "v">>}

\* the destinations of the calls that are about the destination directory
DestDirs == Dests \cup {Some(<<"o", "u", "t", "/", "s", "u", "b">>)}

\* the directories there can be before such a call: none, or out and another one
DirsBefore == { {}, {<<"o", "u", "t">>, <<"e", "t", "c">>} }

\* the output_flag values _build_extraction_command is applied to: none, the ones
\* its branches name, and one they do not name
OutputFlags ==
  {None, Some(s_o), Some(s_op), Some(s_output_eq), Some(s_d), Some(s_to), Some(<<>>),
   Some(s_C)}

\* the tool flags it is applied to
ToolFlagLists == {<<>>, <<s_x>>}

\* what the file at archive_name can hold: a tar stream (compressed), a plain file
\* (compressed), or nothing that can be read (missing, unreadable or truncated)
Payloads == {"tar", "plain", "unreadable"}

\* the archive names whose format is an ambiguous single-compressor one (check_tar)
AmbiguousNames ==
  {n \in ArchiveNames :
     /\ Len(FormatTable[n].format_config) = 1
     /\ getflag(FormatTable[n].format_config[1], "check_tar")}

\* the variants a tool is classified into
Variants == {"reference", "alternate", "unknown"}

\* the compatibility table: for each variant the user flags marked unsupported, each
\* with its substitute or with None; the unknown variant has the strictest filter
CompatTable ==
  [v \in Variants |->
     IF v = "reference" THEN {}
     ELSE IF v = "alternate" THEN {[flag |-> <<"-", "v">>, substitute |-> Some(<<"-", "-", "v", "e", "r", "b", "o", "s", "e">>)]}
     ELSE {[flag |-> <<"-", "v">>, substitute |-> None]}]

\* the callers that can run at the same time (ranger jobs, CLI processes)
Procs == {"a", "b"}

\* a caller that has not called yet
IdleProc == [pc |-> "idle", call |-> <<>>, fmt |-> <<>>, result |-> <<>>]

\* the tools of the hosts on which calls run at the same time
ConcTools == {s_tar, <<"g","z","i","p">>, s_zip}

ConcHosts == {h \in Hosts : h \subseteq ConcTools}

\* the archives of the calls that run at the same time
ConcNames == {Stem \o <<".", "z", "i", "p">>, Stem \o <<".", "g", "z">>, Stem \o <<".", "t", "a", "r", ".", "g", "z">>}

\* the calls: find_archive_format(name), ArchiveCompressor.get_command(name, flags,
\* files) and ArchiveDecompressor.get_command(name, flags, dir), all callers
\* extracting into the same directory
ConcCalls ==
  {[kind |-> "find_archive_format", name |-> n, flags |-> <<>>, files |-> <<>>,
    dir |-> None] : n \in ConcNames}
  \cup {[kind |-> "compress", name |-> n, flags |-> fl, files |-> fs, dir |-> None]
          : n \in ConcNames, fl \in FlagLists, fs \in FileLists}
  \cup {[kind |-> "decompress", name |-> n, flags |-> fl, files |-> <<>>, dir |-> d]
          : n \in ConcNames, fl \in FlagLists, d \in {None, Some(<<"o", "u", "t">>)}}

\* -------------------------------------------------------------- the machine
Init ==
  /\ host \in Hosts
  /\ dirs = {}
  /\ op = "idle"
  /\ archive_name = <<>>
  /\ user_flags = <<>>
  /\ files = <<>>
  /\ to_dir = None
  /\ tool_groups = <<>>
  /\ ret = <<>>
  /\ exc = ""
  /\ payload = "plain"
  /\ compat = {}
  /\ started = <<>>
  /\ success = "none"
  /\ loader = <<>>
  /\ copy_buffer = {}
  /\ cut_buffer = FALSE
  /\ registry = <<>>
  /\ procs = [p \in Procs |-> IdleProc]

\* find_archive_format(filename)
FindArchiveFormat(S) ==
  /\ op = "idle"
  /\ \E n \in S :
    /\ op' = "find_archive_format"
    /\ archive_name' = n
    /\ ret' = find_archive_format(n)
    /\ exc' = ""
    /\ user_flags' = <<>> /\ files' = <<>> /\ to_dir' = None /\ tool_groups' = <<>>
    /\ UNCHANGED <<host, dirs>>
    /\ UNCHANGED caller_vars
    /\ UNCHANGED conc_vars

\* find_available_tool_group(tool_groups)
FindAvailableToolGroup ==
  /\ op = "idle"
  /\ \E g \in GroupLists :
    /\ op' = "find_available_tool_group"
    /\ tool_groups' = g
    /\ ret' = find_available_tool_group(g)
    /\ exc' = ""
    /\ archive_name' = <<>> /\ user_flags' = <<>> /\ files' = <<>> /\ to_dir' = None
    /\ UNCHANGED <<host, dirs>>
    /\ UNCHANGED caller_vars
    /\ UNCHANGED conc_vars

\* ArchiveCompressor.get_command(archive_name, user_flags, files)
Compress ==
  /\ op = "idle"
  /\ \E n \in ArchiveNames, fl \in FlagLists, fs \in FileLists :
    LET r == compress_get_command(n, fl, fs)
    IN  /\ op' = "compress"
        /\ archive_name' = n /\ user_flags' = fl /\ files' = fs
        /\ ret' = r.value
        /\ exc' = r.exc
        /\ to_dir' = None /\ tool_groups' = <<>>
        /\ UNCHANGED <<host, dirs>>
        /\ UNCHANGED caller_vars
        /\ UNCHANGED conc_vars

\* ArchiveDecompressor.get_command(archive_name, user_flags, to_dir) for a name
\* of N and a destination of D, on an archive file whose content is one of P
DecompressIn(N, D, P) ==
  /\ op = "idle"
  /\ \E n \in N, fl \in FlagLists, d \in D, c \in P :
    LET r == ArchiveDecompressor_get_command(n, fl, d, dirs)
    IN  /\ op' = "decompress"
        /\ archive_name' = n /\ user_flags' = fl /\ to_dir' = d
        /\ dirs' = r.dirs
        /\ ret' = r.value
        /\ exc' = r.exc
        /\ payload' = c
        /\ files' = <<>> /\ tool_groups' = <<>>
        /\ UNCHANGED host
        /\ UNCHANGED <<compat, started, success, loader, copy_buffer, cut_buffer, registry, procs>>

Decompress == DecompressIn(ArchiveNames, Dests, {"plain"})

\* the compression plan runs tar to create an archive: [<tar>, "-cf", ...]
is_tar_create(plan) ==
  /\ Len(plan) >= 3 /\ is_command_available(s_tar)
  /\ plan[1] = which(s_tar)[1] /\ plan[2] = s_cf

\* the archive it writes: the argument of -cf, which the builders put after the
\* user flags
tar_target(plan, flags) == plan[3 + Len(flags)]

\* ArchiveDecompressor.get_command(T, [], to_dir) for the archive T that the tar-create
\* plan of the compression call before it writes, on the same host; files stays the
\* file list that was compressed
DecompressTarget ==
  /\ op = "compress" /\ exc = "" /\ is_tar_create(ret)
  /\ \E d \in Dests :
       \E r \in {ArchiveDecompressor_get_command(tar_target(ret, user_flags), <<>>, d, dirs)} :
         /\ op' = "decompress"
         /\ archive_name' = tar_target(ret, user_flags)
         /\ user_flags' = <<>> /\ to_dir' = d
         /\ dirs' = r.dirs
         /\ ret' = r.value
         /\ exc' = r.exc
         /\ UNCHANGED <<host, files, tool_groups, payload>>
         /\ UNCHANGED <<compat, started, success, loader, copy_buffer, cut_buffer, registry, procs>>

\* ArchiveDecompressor._build_extraction_command(tool, tool_flags, user_flags,
\* output_flag, archive_name, to_dir) for a tool that was found on the host
BuildExtractionCommand ==
  /\ op = "idle"
  /\ \E tool \in host, tf \in ToolFlagLists, fl \in FlagLists, of \in OutputFlags,
        n \in CallerNames, d \in Dests :
    /\ op' = "_build_extraction_command"
    /\ tool_groups' = <<[tool |-> tool, flags |-> tf, output_flag |-> of]>>
    /\ archive_name' = n /\ user_flags' = fl /\ to_dir' = d
    /\ ret' = build_extraction_command(tool, tf, fl, of, n, d)
    /\ exc' = ""
    /\ files' = <<>>
    /\ UNCHANGED <<host, dirs>>
    /\ UNCHANGED caller_vars
    /\ UNCHANGED conc_vars

\* archive_cli.compress_files(archive_name, files, flags, cwd)
CompressFiles ==
  /\ op = "idle"
  /\ \E n \in CallerNames, f \in FlagStrings, fs \in FileLists, cwd \in Cwds,
        o \in RunOutcomes :
    \E r \in {compress_files(n, fs, f, cwd, o, started)} :
        /\ op' = "compress_files"
        /\ archive_name' = n /\ user_flags' = r.flag_list /\ files' = fs
        /\ ret' = r.command
        /\ exc' = r.exc
        /\ started' = r.started
        /\ success' = r.success
        /\ to_dir' = None /\ tool_groups' = <<>>
        /\ UNCHANGED <<host, dirs, payload, compat, loader, copy_buffer, cut_buffer, registry, procs>>

\* archive_cli.decompress_archive(archive_name, output_dir, flags)
DecompressArchive ==
  /\ op = "idle"
  /\ \E n \in CallerNames, f \in FlagStrings, d \in Dests, o \in RunOutcomes :
    \E r \in {decompress_archive(n, d, f, o, started, dirs)} :
        /\ op' = "decompress_archive"
        /\ archive_name' = n /\ user_flags' = r.flag_list /\ to_dir' = d
        /\ ret' = r.command
        /\ exc' = r.exc
        /\ dirs' = r.dirs
        /\ started' = r.started
        /\ success' = r.success
        /\ files' = <<>> /\ tool_groups' = <<>>
        /\ UNCHANGED <<host, payload, compat, loader, copy_buffer, cut_buffer, registry, procs>>

\* execute() of extract, extract_raw and extract_to_dirs on a selection, arg being
\* the directory name (extract) or the flags (extract_raw, extract_to_dirs)
execute(command, selection, arg) ==
  /\ op' = command
  /\ files' = selection
  /\ archive_name' = <<>> /\ tool_groups' = <<>> /\ ret' = <<>>
  /\ user_flags' = IF command = "extract" THEN <<>> ELSE arg
  /\ to_dir' = IF command = "extract" /\ Len(arg) > 0 THEN Some(arg) ELSE None
  /\ IF Len(selection) = 0
       THEN /\ exc' = ""
            /\ UNCHANGED <<dirs, loader, copy_buffer, cut_buffer>>
       ELSE \E r \in {for_file_in_files(command, selection, 1, arg, dirs, loader)} :
                /\ copy_buffer' = {}
                /\ cut_buffer' = FALSE
                /\ dirs' = r.dirs
                /\ loader' = r.loader
                /\ exc' = r.exc
  /\ UNCHANGED <<host, payload, compat, started, success, registry, procs>>

\* extract.execute
Extract ==
  /\ op = "idle"
  /\ \E selection \in Selections, line \in ExtractLines :
       execute("extract", selection, join(<<" ">>, drop_first(str_split(strip(line)))))

\* extract_raw.execute
ExtractRaw ==
  /\ op = "idle"
  /\ \E selection \in Selections, line \in ExtractRawLines :
       execute("extract_raw", selection, drop_first(parse_escape_args(strip(line))))

\* extract_to_dirs.execute
ExtractToDirs ==
  /\ op = "idle"
  /\ \E selection \in Selections, line \in ExtractToDirsLines :
       execute("extract_to_dirs", selection, drop_first(parse_escape_args(strip(line))))

\* a caller starts a call
CallStart(p) ==
  /\ procs[p].pc = "idle"
  /\ \E c \in ConcCalls :
       procs' = [procs EXCEPT ![p] =
                   [pc |-> IF c.kind = "decompress" THEN "mkdir" ELSE "lookup",
                    call |-> c, fmt |-> <<>>, result |-> <<>>]]
  /\ UNCHANGED <<host, dirs, registry, engine_vars, caller_vars>>

\* ArchiveDecompressor.get_command: "if to_dir: Path(to_dir).mkdir(...)"
CallMkdir(p) ==
  /\ procs[p].pc = "mkdir"
  /\ LET m == ensure_dir(procs[p].call.dir, dirs)
     IN  /\ dirs' = m.dirs
         /\ procs' = [procs EXCEPT ![p] =
                        IF m.exc = "" THEN [@ EXCEPT !.pc = "lookup"]
                        ELSE [@ EXCEPT !.pc = "done", !.result = Raise(m.exc)]]
  /\ UNCHANGED <<host, registry, engine_vars, caller_vars>>

\* "format_name, format_config = find_archive_format(archive_name)", which is the
\* whole call for find_archive_format
CallLookup(p) ==
  /\ procs[p].pc = "lookup"
  /\ LET f == find_format_in(FORMATS_now(registry), procs[p].call.name, 1)
     IN  procs' = [procs EXCEPT ![p] =
                     IF procs[p].call.kind = "find_archive_format"
                       THEN [@ EXCEPT !.pc = "done", !.fmt = f, !.result = Ok(f)]
                       ELSE [@ EXCEPT !.pc = "build", !.fmt = f]]
  /\ UNCHANGED <<host, dirs, registry, engine_vars, caller_vars>>

\* the rest of ArchiveCompressor.get_command and ArchiveDecompressor.get_command:
\* tool resolution and the command
CallBuild(p) ==
  /\ procs[p].pc = "build"
  /\ LET c == procs[p].call
         r == IF c.kind = "compress"
                THEN compress_with_format(procs[p].fmt, c.name, c.flags, c.files)
                ELSE decompress_with_format(procs[p].fmt, c.name, c.flags, c.dir)
     IN  /\ procs' = [procs EXCEPT ![p] = [@ EXCEPT !.pc = "done", !.result = r]]
         /\ registry' = registry_after_build(registry, procs[p].fmt, c.flags)
  /\ UNCHANGED <<host, dirs, engine_vars, caller_vars>>

Next ==
  \/ FindArchiveFormat(ArchiveNames)
  \/ FindAvailableToolGroup
  \/ Compress
  \/ Decompress

Spec == Init /\ [][Next]_vars

\* the format lookup alone, over the filenames Names
InitFormat == Init /\ host = {}

NextFormat == FindArchiveFormat(Names)

SpecFormat == InitFormat /\ [][NextFormat]_vars

\* the tool resolver alone
NextTools == FindAvailableToolGroup

SpecTools == Init /\ [][NextTools]_vars

\* compression alone
NextCompress == Compress

SpecCompress == Init /\ [][NextCompress]_vars

\* extraction alone
NextDecompress == Decompress

SpecDecompress == Init /\ [][NextDecompress]_vars

\* the callers: archive_cli.py and the ranger commands, with something or nothing
\* in ranger's copy buffer
InitCallers ==
  /\ host \in Hosts
  /\ dirs = {}
  /\ op = "idle"
  /\ archive_name = <<>>
  /\ user_flags = <<>>
  /\ files = <<>>
  /\ to_dir = None
  /\ tool_groups = <<>>
  /\ ret = <<>>
  /\ exc = ""
  /\ payload = "plain"
  /\ compat = {}
  /\ started = <<>>
  /\ success = "none"
  /\ loader = <<>>
  /\ cut_buffer \in BOOLEAN
  /\ copy_buffer = IF cut_buffer THEN {thisdir_path \o <<"/">> \o Stem} ELSE {}
  /\ registry = <<>>
  /\ procs = [p \in Procs |-> IdleProc]

NextCallers ==
  \/ CompressFiles
  \/ DecompressArchive
  \/ Extract
  \/ ExtractRaw
  \/ ExtractToDirs

SpecCallers == InitCallers /\ [][NextCallers]_vars

\* extraction into a destination, of one archive per path through the operation,
\* in a file system where the destination exists or not
InitDest ==
  /\ host \in Hosts
  /\ dirs \in DirsBefore
  /\ op = "idle"
  /\ archive_name = <<>>
  /\ user_flags = <<>>
  /\ files = <<>>
  /\ to_dir = None
  /\ tool_groups = <<>>
  /\ ret = <<>>
  /\ exc = ""
  /\ payload = "plain"
  /\ compat = {}
  /\ started = <<>>
  /\ success = "none"
  /\ loader = <<>>
  /\ copy_buffer = {}
  /\ cut_buffer = FALSE
  /\ registry = <<>>
  /\ procs = [p \in Procs |-> IdleProc]

NextDest == DecompressIn(CallerNames, DestDirs, {"plain"})

SpecDest == InitDest /\ [][NextDest]_vars

\* the builder of standard extraction commands alone
NextBuild == BuildExtractionCommand

SpecBuild == Init /\ [][NextBuild]_vars

\* extraction of the files with an ambiguous extension, whatever they hold
NextAmbiguous == DecompressIn(AmbiguousNames, Dests, Payloads)

SpecAmbiguous == Init /\ [][NextAmbiguous]_vars

\* compression when the tool in use is of one of the variants
InitSanitize ==
  /\ host \in Hosts
  /\ dirs = {}
  /\ op = "idle"
  /\ archive_name = <<>>
  /\ user_flags = <<>>
  /\ files = <<>>
  /\ to_dir = None
  /\ tool_groups = <<>>
  /\ ret = <<>>
  /\ exc = ""
  /\ payload = "plain"
  /\ compat \in {CompatTable[v] : v \in Variants}
  /\ started = <<>>
  /\ success = "none"
  /\ loader = <<>>
  /\ copy_buffer = {}
  /\ cut_buffer = FALSE
  /\ registry = <<>>
  /\ procs = [p \in Procs |-> IdleProc]

NextSanitize == Compress

SpecSanitize == InitSanitize /\ [][NextSanitize]_vars

\* calls of several callers, their steps interleaved
\* a compression call and then the extraction of the archive its plan writes
NextAgree ==
  \/ Compress
  \/ DecompressTarget

SpecAgree == Init /\ [][NextAgree]_vars

InitConcurrent == Init /\ host \in ConcHosts

NextConcurrent ==
  \E p \in Procs : CallStart(p) \/ CallMkdir(p) \/ CallLookup(p) \/ CallBuild(p)

SpecConcurrent == InitConcurrent /\ [][NextConcurrent]_vars

\* ------------------------------------------------- reference definitions
\* the literal suffixes a registered pattern stands for: "\." is a dot, the final
\* "$" is dropped, and "c?" stands for both c and nothing
Literals(pattern) ==
  LET c == replace(replace(pattern, <<"\\", ".">>, <<".">>), <<"$">>, <<>>)
      q == {i \in 1..Len(c) : c[i] = "?"}
  IN  IF q = {} THEN {c}
      ELSE LET i == CHOOSE i \in q : TRUE
           IN  { SubSeq(c, 1, i - 1) \o SubSeq(c, i + 1, Len(c)),
                 SubSeq(c, 1, i - 2) \o SubSeq(c, i + 1, Len(c)) }

LiteralsOf == [p \in AllPatterns |-> Literals(p)]

\* a character of a filename equals a lower-case character, letter case ignored
SameCI(a, b) == a = b \/ (a \in DOMAIN LowerOf /\ LowerOf[a] = b)

EndsWithCI(n, lit) ==
  /\ Len(n) >= Len(lit)
  /\ \A k \in 1..Len(lit) : SameCI(n[Len(n) - Len(lit) + k], lit[k])

\* format i claims filename n: n ends, letter case ignored, with a literal of one
\* of its patterns (a final newline after the literal is allowed by "$")
Claims(i, n) ==
  \E k \in 1..Len(FORMATS[i].config.patterns) :
    \E lit \in LiteralsOf[FORMATS[i].config.patterns[k]] :
      \/ EndsWithCI(n, lit)
      \/ Len(n) > 0 /\ n[Len(n)] = "\n" /\ EndsWithCI(SubSeq(n, 1, Len(n) - 1), lit)

\* the claimants of every archive name, computed once
ClaimantsTable == [n \in ArchiveNames |-> {i \in FormatIds : Claims(i, n)}]

Claimants(n) ==
  IF n \in DOMAIN ClaimantsTable THEN ClaimantsTable[n] ELSE {i \in FormatIds : Claims(i, n)}

\* the first claimant in registration order
FirstClaimant(n) == CHOOSE i \in Claimants(n) : \A j \in Claimants(n) : i <= j

NoFormat == [format_name |-> None, format_config |-> None]

FormatAt(i) == [format_name |-> Some(FORMATS[i].name), format_config |-> Some(FORMATS[i].config)]

\* ----------------------------------------------------------------- claims
\* C1: find_archive_format returns the first format, in registration order, one of
\* whose patterns matches the filename with letter case ignored, and (None, None)
\* when no format matches.
C1_FirstMatchInOrder ==
  op = "find_archive_format" =>
    IF Claimants(archive_name) = {} THEN ret = NoFormat
    ELSE ret = FormatAt(FirstClaimant(archive_name))

\* C1 witness: a mixed-case name that two formats claim was looked up and the
\* earlier one, tar_gz, was returned
C1_Witness ==
  /\ op = "find_archive_format"
  /\ archive_name = Stem \o <<".","T","a","r",".","G","Z">>
  /\ Cardinality(Claimants(archive_name)) = 2
  /\ ret.format_name = Some(<<"t","a","r","_","g","z">>)

\* C2 as stated: at most one registered format has a pattern that matches a
\* filename.
C2_AtMostOneClaimant ==
  op = "find_archive_format" => Cardinality(Claimants(archive_name)) <= 1

IsSingleFile(i) == getflag(FORMATS[i].config, "single_file")

IsCompressedTar(i) == startswith(FORMATS[i].name, s_tar_prefix)

\* C2 amended: at most two registered formats match a filename; when two do, the
\* one registered first is a compressed-tar format and is the one
\* find_archive_format returns, and the other is a single-file format.
C2_OverlapOnlyTarOverSingleFile ==
  op = "find_archive_format" =>
    LET M == Claimants(archive_name)
    IN  /\ Cardinality(M) <= 2
        /\ Cardinality(M) = 2 =>
             /\ IsCompressedTar(FirstClaimant(archive_name))
             /\ ret.format_name = Some(FORMATS[FirstClaimant(archive_name)].name)
             /\ \A i \in M \ {FirstClaimant(archive_name)} : IsSingleFile(i)

\* C2 witness: note.tar.gz is claimed by tar_gz and by gz, and tar_gz is returned
C2_Witness ==
  /\ op = "find_archive_format"
  /\ archive_name = Stem \o <<".","t","a","r",".","g","z">>
  /\ {FORMATS[i].name : i \in Claimants(archive_name)} = {<<"t","a","r","_","g","z">>, <<"g","z">>}
  /\ ret.format_name = Some(<<"t","a","r","_","g","z">>)

\* the tools of a group that are on the host, by position, and the groups of a
\* list that have one
Avail(group) == {k \in 1..Len(group.tools) : group.tools[k] \in host}

UsableGroups(gl) == {g \in 1..Len(gl) : Avail(gl[g]) # {}}

Min(S) == CHOOSE x \in S : \A y \in S : x <= y

\* the first tool of a group that is on the host
FirstAvail(group) == group.tools[Min(Avail(group))]

\* C3: find_available_tool_group returns the first available tool of the first
\* group, in list order, that has an available tool, with that group's flags and
\* output_flag, and (None, None, None) when no group has one; with only tools of
\* the second group available the second group is the one selected.
C3_TwoLevelFallback ==
  op = "find_available_tool_group" =>
    LET U == UsableGroups(tool_groups)
    IN  /\ U = {} => ret = [tool |-> None, flags |-> None, output_flag |-> None]
        /\ U # {} =>
             LET g == tool_groups[Min(U)]
             IN  /\ ret.tool = Some(FirstAvail(g))
                 /\ ret.flags = Some(g.flags)
                 /\ ret.output_flag = IF "output_flag" \in DOMAIN g
                                        THEN Some(g.output_flag) ELSE None
        /\ (Len(tool_groups) >= 2 /\ 1 \notin U /\ 2 \in U) =>
             /\ ret.tool[1] \in Range(tool_groups[2].tools)
             /\ ret.flags[1] = tool_groups[2].flags

\* C3 witness: of the four groups [zip], [7z] a -tzip, [unrar, rar], [7z] x only
\* 7z is installed, and the second group was selected, not the fourth
C3_Witness ==
  /\ op = "find_available_tool_group"
  /\ Len(tool_groups) = 4
  /\ tool_groups[1].tools = <<s_zip>>
  /\ tool_groups[4].tools = <<s_7z>>
  /\ host = {s_7z}
  /\ ret.tool = Some(s_7z)
  /\ ret.flags = Some(<< <<"a">>, <<"-","t","z","i","p">> >>)
  /\ ret.output_flag = None

\* the compression groups of a registered format (none for a format without any)
CompressionGroups(i) ==
  IF "compression" \in DOMAIN FORMATS[i].config THEN FORMATS[i].config.compression ELSE <<>>

\* C4 as stated: compressing to a name that matches no format, or a format none of
\* whose compression tools is available, yields zip -r (7z a -tzip without zip),
\* the user flags, '<archive_name>.zip' and the files.
C4_GenericZipFallback ==
  ( /\ op = "compress"
    /\ (s_zip \in host \/ s_7z \in host)
    /\ \/ Claimants(archive_name) = {}
       \/ UsableGroups(CompressionGroups(FirstClaimant(archive_name))) = {} )
  => /\ exc = ""
     /\ ret = (IF s_zip \in host THEN <<BinDir \o s_zip, <<"-","r">> >>
               ELSE <<BinDir \o s_7z, <<"a">>, <<"-","t","z","i","p">> >>)
              \o user_flags \o <<archive_name \o s_dot_zip>> \o files

\* the single-file or compressed-tar case of a compression call: the name's first
\* claimant and the compression group resolved for it
Resolved == CompressionGroups(FirstClaimant(archive_name))[
              Min(UsableGroups(CompressionGroups(FirstClaimant(archive_name))))]

HasCompressor ==
  /\ Claimants(archive_name) # {}
  /\ UsableGroups(CompressionGroups(FirstClaimant(archive_name))) # {}

\* C5: a single-file format with exactly one input file and an available
\* compressor: the plan runs the first available compressor of the format, with
\* the group's flags and the user flags, over that file and writes exactly the
\* requested archive name; tar is not part of it.
C5_SingleFileOneShot ==
  ( /\ op = "compress"
    /\ Len(files) = 1
    /\ HasCompressor
    /\ IsSingleFile(FirstClaimant(archive_name)) )
  => /\ exc = ""
     /\ ret = << s_sh, s_c,
                 BinDir \o FirstAvail(Resolved) \o <<" ">>
                   \o join(<<" ">>, Resolved.flags \o user_flags)
                   \o <<" ", "'">> \o files[1] \o <<"'", " ", ">", " ", "'">>
                   \o archive_name \o <<"'">> >>
     /\ \A k \in 1..Len(ret) : ~startswith(ret[k], BinDir \o s_tar)

\* C5 witness: note.gz from note.txt with only gzip installed
C5_Witness ==
  /\ op = "compress"
  /\ archive_name = <<"n","o","t","e",".","g","z">>
  /\ files = << <<"n","o","t","e",".","t","x","t">> >>
  /\ user_flags = <<>>
  /\ host = {<<"g","z","i","p">>}
  /\ ret = << <<"s","h">>, <<"-","c">>,
              <<"/","b","i","n","/","g","z","i","p"," ","-","c"," ","'","n","o","t","e",
                ".","t","x","t","'"," ",">"," ","'","n","o","t","e",".","g","z","'">> >>

\* the literal of its first claimant that a name ends with, and the name with
\* ".tar" put once directly before it
SuffixLen(n) ==
  LET i == FirstClaimant(n)
      lits == UNION {LiteralsOf[FORMATS[i].config.patterns[k]]
                       : k \in 1..Len(FORMATS[i].config.patterns)}
  IN  Len(CHOOSE lit \in lits : EndsWithCI(n, lit))

TarCompound(n) ==
  SubSeq(n, 1, Len(n) - SuffixLen(n)) \o s_dot_tar \o SubSeq(n, Len(n) - SuffixLen(n) + 1, Len(n))

\* C6 as stated: a single-file format with more than one input file, tar and the
\* compressor available: the plan is a tar-create invocation whose target is the
\* name with '.tar' inserted once directly before the compression suffix and
\* whose compression program is the compressor resolved for the format.
C6_TarCompoundRewrite ==
  ( /\ op = "compress"
    /\ Len(files) > 1
    /\ HasCompressor
    /\ IsSingleFile(FirstClaimant(archive_name))
    /\ s_tar \in host )
  => /\ exc = ""
     /\ Len(ret) >= 5 + Len(user_flags)
     /\ ret[1] = BinDir \o s_tar
     /\ ret[2] = s_cf
     /\ ret[3 + Len(user_flags)] = TarCompound(archive_name)
     /\ ret[4 + Len(user_flags)] = s_use_compress_program
     /\ ret[5 + Len(user_flags)] = BinDir \o FirstAvail(Resolved)

\* C7: a compressed-tar format with tar and a compressor available: the plan is
\* tar, -cf, the user flags, the archive name, --use-compress-program with the
\* path of the first available compressor of the format, then the files in order.
C7_CompressedTarPlan ==
  ( /\ op = "compress"
    /\ HasCompressor
    /\ IsCompressedTar(FirstClaimant(archive_name))
    /\ s_tar \in host )
  => /\ exc = ""
     /\ ret = <<BinDir \o s_tar, <<"-","c","f">> >> \o user_flags
                \o <<archive_name, s_use_compress_program, BinDir \o FirstAvail(Resolved)>>
                \o files

\* C7 witness: note.tar.gz from a.txt and b.txt with tar and gzip installed and
\* pigz absent
C7_Witness ==
  /\ op = "compress"
  /\ archive_name = <<"n","o","t","e",".","t","a","r",".","g","z">>
  /\ files = << <<"a",".","t","x","t">>, <<"b",".","t","x","t">> >>
  /\ user_flags = <<>>
  /\ host = {<<"t","a","r">>, <<"g","z","i","p">>}
  /\ ret = << <<"/","b","i","n","/","t","a","r">>, <<"-","c","f">>,
              <<"n","o","t","e",".","t","a","r",".","g","z">>,
              <<"-","-","u","s","e","-","c","o","m","p","r","e","s","s","-","p","r","o","g","r","a","m">>,
              <<"/","b","i","n","/","g","z","i","p">>,
              <<"a",".","t","x","t">>, <<"b",".","t","x","t">> >>

IsGetCommand == op \in {"compress", "decompress"}

\* C8 as stated: a non-empty plan is an argument vector headed by the tool to
\* run, never ['sh', '-c', <string>], except for the piped extraction of a format
\* that declares it.
C8_NoShellString ==
  (IsGetCommand /\ exc = "" /\ Len(ret) >= 1 /\ ret[1] = s_sh)
  => /\ op = "decompress"
     /\ Claimants(archive_name) # {}
     /\ get(FORMATS[FirstClaimant(archive_name)].config, "special_extraction") = Some(s_pipe)

\* C9 as stated: neither get_command ever raises.
C9_NeverRaises == IsGetCommand => exc = ""

\* the tools a call can fall back on: those of the name's format and the generic
\* archivers
Candidates ==
  {s_tar, s_zip, s_7z, s_unzip}
    \cup (IF Claimants(archive_name) = {} THEN {}
          ELSE LET cfg == FORMATS[FirstClaimant(archive_name)].config
               IN  UNION {UNION {Range(cfg[k][g].tools) : g \in 1..Len(cfg[k])}
                            : k \in {"compression", "extraction"} \cap DOMAIN cfg})

\* C10 as stated: with every candidate tool absent from the host both operations
\* return the empty plan.
C10_EmptyPlanWithoutTools ==
  (IsGetCommand /\ Candidates \cap host = {}) => (exc = "" /\ ret = <<>>)

\* ---------------------------------------------------------------------- C11
\* the commands of extract.py
RangerCommands == {"extract", "extract_raw", "extract_to_dirs"}

\* C11: callers treat an empty plan as a hard failure.  When the engine returned an
\* empty plan to compress_files or decompress_archive, the function returned False
\* and made no subprocess.run call; and no job that the extract, extract_raw and
\* extract_to_dirs commands added to the loader has an empty plan as its arguments.
C11_EmptyPlanIsHardFailure ==
  /\ (op \in {"compress_files", "decompress_archive"} /\ exc = "" /\ Len(ret) = 0)
       => (success = "False" /\ Len(started) = 0)
  /\ op \in RangerCommands => \A i \in 1..Len(loader) : Len(loader[i].args) > 0

\* ---------------------------------------------------------------------- C12
\* C12: whenever ArchiveDecompressor.get_command was called with a dest_dir, the
\* call returned (it raised nothing, also when the directory existed before), and
\* the directory and each of its parents exist when it has returned its plan, on
\* every path through the operation.
C12_DestinationExists ==
  (op = "decompress" /\ Truthy(to_dir))
    => (exc = "" /\ mkdir_parents(to_dir[1]) \subseteq dirs)

\* a plan was returned for a nested destination whose parent existed before the
\* call and whose last directory did not
C12_Witness ==
  /\ op = "decompress" /\ exc = "" /\ Len(ret) > 0
  /\ to_dir = Some(<<"o", "u", "t", "/", "s", "u", "b">>)
  /\ dirs = {<<"o", "u", "t">>, <<"e", "t", "c">>, <<"o", "u", "t", "/", "s", "u", "b">>}

\* ---------------------------------------------------------------------- C13
\* the directory argument the convention of an output flag stands for
Injected(of, dir) ==
  IF of = None THEN <<>>
  ELSE IF of[1] \in {s_o, s_op, s_output_eq} THEN <<of[1] \o dir>>
  ELSE IF of[1] = <<>> THEN <<dir>>
  ELSE <<of[1], dir>>

\* C13: with a destination, _build_extraction_command injects the directory after
\* the archive name by exactly the convention recorded on the resolved group:
\* -oPATH, -opPATH and --output=PATH as one element, a named flag (-d, -to, -C) and
\* PATH as two elements, PATH alone for the empty output flag, and nothing when the
\* group records no convention (never a default that depends on the tool).
C13_RecordedConvention ==
  (op = "_build_extraction_command" /\ Truthy(to_dir))
    => LET g == tool_groups[1]
       IN  ret = <<which(g.tool)[1]>> \o g.flags \o user_flags \o <<archive_name>>
                   \o Injected(g.output_flag, to_dir[1])

\* ---------------------------------------------------------------------- C14
\* the extraction groups of the registry
ExtractionGroups ==
  UNION {Range(FORMATS[i].config.extraction)
           : i \in {j \in FormatIds : "extraction" \in DOMAIN FORMATS[j].config}}

\* the decompressors of the formats that declare piped extraction
PipeTools ==
  UNION {UNION {Range(g.tools) : g \in Range(FORMATS[i].config.compression)}
           : i \in {j \in FormatIds : get(FORMATS[j].config, "special_extraction") # None}}

\* plan is a tool, flags of that tool, the user flags and the archive name, and
\* nothing else: a tool of a registry group with the group's flags, tar -xf, the
\* last-resort 7z x or unzip, or the two-stage pipeline without -C
IsDirFreePlan(plan, name, flags) ==
  \/ \E g \in ExtractionGroups : \E i \in 1..Len(g.tools) :
       plan = <<BinDir \o g.tools[i]>> \o g.flags \o flags \o <<name>>
  \/ plan = <<BinDir \o s_tar, s_xf, name>> \o flags
  \/ \E p \in {s_7z, BinDir \o s_7z} : plan = <<p, s_x>> \o flags \o <<name>>
  \/ plan = <<BinDir \o s_unzip>> \o flags \o <<name>>
  \/ \E t \in PipeTools :
       plan = <<s_sh, s_c, BinDir \o t \o s_dc \o name \o s_pipe_tar
                             \o BinDir \o s_tar \o s_xf_stdin>>

\* C14: when dest_dir is unset (None or the empty string), a non-empty extraction
\* plan carries no directory flag and no directory argument on any path: it is
\* the tool, its flags, the user flags and the archive name only.
C14_NoDirectoryWhenUnset ==
  (op = "decompress" /\ ~Truthy(to_dir) /\ exc = "" /\ Len(ret) > 0)
    => IsDirFreePlan(ret, archive_name, user_flags)

\* extraction of note.zip with the empty string as destination, by unzip, whose
\* group records the -d convention
C14_Witness ==
  /\ op = "decompress" /\ to_dir = Some(<<>>)
  /\ archive_name = Stem \o s_dot_zip
  /\ ret = <<BinDir \o s_unzip>> \o user_flags \o <<archive_name>>

\* ---------------------------------------------------------------------- C15
\* the basename embeds the tar-compound marker ".tar."
HasTarMarker(n) ==
  \E i \in 1..Len(n) :
    /\ i + 4 <= Len(n)
    /\ \A k \in i..(i + 4) : n[k] # "/"
    /\ lower(SubSeq(n, i, i + 4)) = s_dot_tar_dot
    /\ \A k \in (i + 5)..Len(n) : n[k] # "/"

\* the plan extracts through tar
ThroughTar == Len(ret) > 0 /\ ret[1] = BinDir \o s_tar

\* C15: for a file with an ambiguous single-compressor extension, on a host with
\* tar: a name with the tar-compound marker is extracted through tar whatever the
\* file holds; a name without the marker that holds no tar stream is not extracted
\* through tar; and a name without the marker whose header cannot be read is
\* extracted through tar (the conservative default).
C15_AmbiguityDefault ==
  (op = "decompress" /\ archive_name \in AmbiguousNames /\ s_tar \in host /\ exc = "")
    => /\ HasTarMarker(archive_name) => ThroughTar
       /\ (~HasTarMarker(archive_name) /\ payload = "plain") => ~ThroughTar
       /\ (~HasTarMarker(archive_name) /\ payload = "unreadable") => ThroughTar

\* ---------------------------------------------------------------------- C16
\* the plan carries the flag: as an element, or as a word of its shell string
Mentions(plan, flag) ==
  \/ flag \in Range(plan)
  \/ /\ Len(plan) = 3 /\ plan[1] = s_sh
     /\ contains(plan[3], s_space \o flag \o s_space)

\* C16: a user flag marked unsupported for the variant of the tool in use is not
\* in the emitted compression command, and its substitute, where one is defined,
\* is there when the user gave the flag.
C16_FlagsSanitized ==
  (op = "compress" /\ exc = "" /\ Len(ret) > 0)
    => \A e \in compat :
         /\ ~Mentions(ret, e.flag)
         /\ (e.flag \in Range(user_flags) /\ e.substitute # None)
              => Mentions(ret, e.substitute[1])

\* ---------------------------------------------------------------------- C18
\* what a call returns when it runs alone on the host
Alone(c) ==
  IF c.kind = "find_archive_format" THEN Ok(find_format_from(c.name, 1))
  ELSE IF c.kind = "compress" THEN compress_get_command(c.name, c.flags, c.files)
  ELSE LET r == ArchiveDecompressor_get_command(c.name, c.flags, c.dir, {})
       IN  [exc |-> r.exc, value |-> r.value]

PipedFormat ==
  /\ Claimants(archive_name) # {}
  /\ get(FORMATS[FirstClaimant(archive_name)].config, "special_extraction") = Some(s_pipe)

\* a word of a shell command line in single quotes
Quoted(s) == <<"'">> \o s \o <<"'">>

\* the words of the first stage: the decompressor streams the archive to standard
\* output
FirstStage == <<BinDir \o FirstAvail(Resolved), <<"-", "d", "c">>, Quoted(archive_name)>>

\* the words of the second stage: tar extracts from standard input, into the
\* destination when there is one
SecondStage ==
  <<BinDir \o s_tar, s_xf, <<"-">> >>
    \o (IF to_dir = None \/ to_dir = Some(<<>>) THEN <<>> ELSE <<s_C, Quoted(to_dir[1])>>)

\* C19: extraction of an archive whose format declares piped extraction, with the
\* format's decompressor and tar installed, is the shell pipeline
\* "<decompressor> -dc '<archive>' | <tar> -xf -", with -C '<destination>' at the end
\* of the tar stage when a destination is given and no -C anywhere when none is.
C19_PipedExtraction ==
  (op = "decompress" /\ PipedFormat /\ HasCompressor /\ s_tar \in host)
  => /\ exc = ""
     /\ Len(ret) = 3 /\ ret[1] = s_sh /\ ret[2] = s_c
     /\ str_split(ret[3]) = FirstStage \o << <<"|">> >> \o SecondStage

\* note.tar.bz3 extracted into out, with bzip3 and tar installed
C19_Witness ==
  /\ op = "decompress"
  /\ archive_name = Stem \o <<".", "t", "a", "r", ".", "b", "z", "3">>
  /\ host = {<<"b", "z", "i", "p", "3">>, s_tar}
  /\ to_dir = Some(<<"o", "u", "t">>)
  /\ Len(ret) = 3

\* ---------------------------------------------------------------------- C20
\* the name's format is an ambiguous single-compressor one
AmbiguousFormat ==
  /\ Claimants(archive_name) # {}
  /\ getflag(FORMATS[FirstClaimant(archive_name)].config, "check_tar")

\* the extraction groups of the name's format
OwnExtraction == FORMATS[FirstClaimant(archive_name)].config.extraction

\* the first of them with a tool on the host
Decompressor == OwnExtraction[Min(UsableGroups(OwnExtraction))]

\* the destination argument of tar
TarDestination ==
  IF to_dir = None \/ to_dir = Some(<<>>) THEN <<>> ELSE <<s_C, to_dir[1]>>

\* C20: extraction of a name whose format is ambiguous (check_tar): when the
\* basename holds ".tar." and tar is installed the plan is tar -xf <archive>, then
\* -C <destination> when one is given, then the user flags; when the basename does
\* not hold ".tar." the plan is the first installed decompressor of the format, its
\* flags, the user flags and the archive, with no destination argument whether or
\* not a destination is given.
C20_AmbiguousRouting ==
  (op = "decompress" /\ AmbiguousFormat)
  => /\ (HasTarMarker(archive_name) /\ s_tar \in host)
          => /\ exc = ""
             /\ ret = <<BinDir \o s_tar, s_xf, archive_name>> \o TarDestination \o user_flags
     /\ (~HasTarMarker(archive_name) /\ UsableGroups(OwnExtraction) # {})
          => /\ exc = ""
             /\ ret = <<BinDir \o FirstAvail(Decompressor)>> \o Decompressor.flags
                        \o user_flags \o <<archive_name>>

\* note.gz extracted with a user flag and the destination out on a host with gzip:
\* the destination is not in the plan
C20_Witness ==
  /\ op = "decompress"
  /\ archive_name = Stem \o <<".", "g", "z">>
  /\ <<"g", "z", "i", "p">> \in host
  /\ to_dir = Some(<<"o", "u", "t">>)
  /\ Len(user_flags) > 0
  /\ Len(ret) = 3 + Len(user_flags)

\* ---------------------------------------------------------------------- C21
\* the tools a resolver step can find for the name: tar and the tools of the groups
\* of the name's format
ResolverTools ==
  {s_tar}
    \cup (IF Claimants(archive_name) = {} THEN {}
          ELSE LET cfg == FORMATS[FirstClaimant(archive_name)].config
               IN  UNION {UNION {Range(cfg[k][g].tools) : g \in 1..Len(cfg[k])}
                            : k \in {"compression", "extraction"} \cap DOMAIN cfg})

\* the destination in the convention of 7z and of unzip
LastResort7z ==
  <<BinDir \o s_7z, s_x>> \o user_flags \o <<archive_name>>
    \o (IF to_dir = None \/ to_dir = Some(<<>>) THEN <<>> ELSE <<s_o \o to_dir[1]>>)

LastResortUnzip ==
  <<BinDir \o s_unzip>> \o user_flags \o <<archive_name>>
    \o (IF to_dir = None \/ to_dir = Some(<<>>) THEN <<>> ELSE <<s_d, to_dir[1]>>)

\* C21 as stated: when no resolver step finds a tool for the archive (a name that
\* matches no format, or a format of any kind none of whose tools is installed),
\* extraction is the last-resort invocation: 7z x when 7z is installed, otherwise
\* unzip, with the destination as -o<dir> for 7z and -d <dir> for unzip.
C21_LastResortExtraction ==
  (op = "decompress" /\ ResolverTools \cap host = {} /\ {s_7z, s_unzip} \cap host # {})
  => /\ exc = ""
     /\ ret = IF s_7z \in host THEN LastResort7z ELSE LastResortUnzip

\* ---------------------------------------------------------------------- C22
\* a compression tool of the name's format is installed
OwnCompressorInstalled ==
  /\ Claimants(archive_name) # {}
  /\ UsableGroups(CompressionGroups(FirstClaimant(archive_name))) # {}

\* C22 as stated: ArchiveCompressor.get_command returns the empty plan only when no
\* compression tool of the name's format is installed and neither zip nor 7z is;
\* with zip or 7z installed it returns a non-empty plan for every archive name.
C22_EmptyOnlyWithoutTools ==
  op = "compress"
  => /\ (exc = "" /\ ret = <<>>)
          => (~OwnCompressorInstalled /\ s_zip \notin host /\ s_7z \notin host)
     /\ (s_zip \in host \/ s_7z \in host) => (exc = "" /\ ret # <<>>)

\* ---------------------------------------------------------------------- C23
\* the plan extracts with tar -xf
TarExtraction == Len(ret) >= 3 /\ ret[1] = BinDir \o s_tar /\ ret[2] = s_xf

\* the plan is a shell pipeline whose last stage is tar -xf
TarPipeline ==
  /\ Len(ret) = 3 /\ ret[1] = s_sh /\ ret[2] = s_c
  /\ LET w == str_split(ret[3])
     IN  \E i \in 1..Len(w) :
           /\ w[i] = <<"|">>
           /\ i + 2 <= Len(w) /\ w[i + 1] = BinDir \o s_tar /\ w[i + 2] = s_xf
           /\ \A j \in (i + 1)..Len(w) : w[j] # <<"|">>

\* the archive extracted is the one a tar-create plan of a compression call wrote
ExtractsTarTarget == op = "decompress" /\ Len(files) > 0

\* C23 as stated: when ArchiveCompressor.get_command emits a tar-create plan (plain
\* tar, compressed tar, or the rewrite of a single-file name for several files, in
\* any letter case), ArchiveDecompressor.get_command on the archive that plan
\* writes, on the same host, emits a tar extraction: tar -xf or the pipeline into
\* tar, not a single-file decompression or another archiver.
C23_ContainerKindAgrees ==
  ExtractsTarTarget => (exc = "" /\ (TarExtraction \/ TarPipeline))

\* ---------------------------------------------------------------------- C24
\* the name's format is registered and is not an ambiguous single-file one
ArchiveFormat ==
  /\ Claimants(archive_name) # {}
  /\ ~getflag(FORMATS[FirstClaimant(archive_name)].config, "check_tar")

\* the word is a flag that ends with the directory: -o<dir>, -op<dir>
IsDirectoryFlag(word, dir) ==
  /\ Len(word) > Len(dir) /\ word[1] = "-"
  /\ SubSeq(word, Len(word) - Len(dir) + 1, Len(word)) = dir

\* the directory is in the plan: as an element, inside a directory flag, or as a
\* quoted word of the shell pipeline
DestinationInPlan(plan, dir) ==
  \/ \E i \in 1..Len(plan) : plan[i] = dir \/ IsDirectoryFlag(plan[i], dir)
  \/ /\ Len(plan) = 3 /\ plan[1] = s_sh
     /\ Quoted(dir) \in Range(str_split(plan[3]))

\* C24 as stated: for a name of a registered format that is not an ambiguous
\* single-file format, a non-empty extraction plan for a given destination
\* directory holds that directory.
C24_DestinationNotIgnored ==
  ( /\ op = "decompress" /\ ArchiveFormat
    /\ to_dir # None /\ to_dir # Some(<<>>)
    /\ exc = "" /\ Len(ret) > 0 )
  => DestinationInPlan(ret, to_dir[1])

\* ---------------------------------------------------------------------- C25
\* C25 as stated: an ArchiveDecompressor.get_command call that returns the empty
\* plan leaves the directories of the file system as they were; the destination
\* directory has not been created.
C25_NoSideEffectOnFailure ==
  [][(op' = "decompress" /\ exc' = "" /\ ret' = <<>>) => dirs' = dirs]_vars

====
